---- MODULE Spec2Model ----
(***************************************************************************)
(* joeshaw/cota-bus: the data store (internal/store), the static loader    *)
(* (internal/gtfs), the realtime updaters (internal/updater) and the       *)
(* single-file server (main.go), modelled as state machines.               *)
(*                                                                         *)
(* Go maps are TLA+ functions whose DOMAIN is the key set; a missing key   *)
(* reads as the zero value (Get).  Go's map iteration order is             *)
(* unspecified, so every loop over a map is a choice over the orders of    *)
(* its key set (Orders).  The empty string "" is Go's zero string.         *)
(***************************************************************************)
EXTENDS Integers, Sequences, FiniteSets, TLC

VARIABLES
    store,      \* store.Store: the package-based server's data store
    last,       \* the store operation that returned last, with its argument
    nops,       \* number of store operations performed since NewStore
    mu,         \* store.Store.mu, the sync.RWMutex
    writer,     \* the polling goroutine inside UpdateVehicles / UpdatePredictions
    reader,     \* a request goroutine inside one of the indexed accessors
    installedBy, \* for each realtime field, the number of the Update call that assigned it
    loader,     \* the goroutine inside gtfs.Loader.Load
    clock,      \* time.Now()
    server,     \* the single-file server's Server: gtfs and realtime
    localCopy,  \* the file cota.gtfs.zip in the single-file server's directory
    main,       \* the single-file server's main: where it is, and whether it has panicked
    poll,       \* the goroutine inside Server.updateRealtimeData
    updater,    \* the goroutine inside VehicleUpdater.Update / TripUpdater.Update
    request,    \* a request goroutine of the package-based server building a resource
    published,  \* the archive at the static feed's URL, where a run fixes it
    parse,      \* the goroutine inside Server.loadGTFS, followed statement by statement
    tasks       \* the goroutines of one process: main and its two periodic tasks

\* the variables each part of the system never touches
lockVars == <<mu, writer, reader, installedBy>>
callVars == <<last, nops>>
serverVars == <<server, localCopy, main, poll, parse>>
updaterVars == <<updater, request, published>>
taskVars == <<tasks>>
outsideStore == <<lockVars, loader, clock, serverVars, updaterVars, taskVars>>
outsideLock == <<callVars, loader, clock, serverVars, updaterVars, taskVars>>
outsideLoad == <<callVars, lockVars, serverVars, updaterVars, taskVars>>
outsideServer == <<store, callVars, lockVars, loader, updaterVars, parse, taskVars>>
outsideUpdater == <<callVars, lockVars, serverVars, taskVars>>

\* -------------------------------------------------------------- bounds
MaxOps == 3
MaxPolls == 3
MaxLoads == 2
MaxRows == 2
MaxEntities == 1
MaxCycles == 2
MaxWait == 1
MaxLen == 6

\* ------------------------------------------------------------ universes
VehicleIDs    == {"v1", "v2"}
PredictionIDs == {"p1", "p2"}
TripIDs       == {"t1", "t2"}
RouteIDs      == {"r1", "r2"}
StopIDs       == {"s1", "s2"}

\* ------------------------------------------------------- Go map helpers
EmptyMap == <<>>

Get(m, k, zero) == IF k \in DOMAIN m THEN m[k] ELSE zero

Put(m, k, v) == [x \in DOMAIN m \cup {k} |-> IF x = k THEN v ELSE m[x]]

Delete(m, k) == [x \in DOMAIN m \ {k} |-> m[x]]

Range(s) == {s[i] : i \in DOMAIN s}

\* the nil pointer an accessor returns for a missing key
Nil == [nil |-> TRUE]

\* every order in which a range loop may visit the key set S
Orders(S) == {o \in [1..Cardinality(S) -> S] : \A i, j \in 1..Cardinality(S) : o[i] = o[j] => i = j}

\* idx[key] = append(idx[key], id)
AppendIndex(idx, key, id) == Put(idx, key, Append(Get(idx, key, <<>>), id))

\* the maps with keys in a subset of DOMAIN Values whose value at k is drawn from Values[k]
MapsOver(Values) == UNION {{m \in [D -> UNION {Values[k] : k \in D}] : \A k \in D : m[k] \in Values[k]} : D \in SUBSET DOMAIN Values}

\* ------------------------------------------------------- models.Vehicle
Vehicle(id, trip, route, dir) == [ID |-> id, TripID |-> trip, RouteID |-> route, DirectionID |-> dir]

\* ---------------------------------------------------- models.Prediction
Prediction(id, trip, stop, route, dir) == [ID |-> id, TripID |-> trip, StopID |-> stop, RouteID |-> route, DirectionID |-> dir]

\* ------------------------------------------------------- store.NewStore
\* The fields of store.Store that the loader, the updaters and the accessors
\* below use.  Times are integers; 0 is the zero time.Time.
NewStore ==
    [ routes |-> EmptyMap, stops |-> EmptyMap, trips |-> EmptyMap, stopTimes |-> EmptyMap,
      vehicles |-> EmptyMap, predictions |-> EmptyMap,
      stopsByRoute |-> EmptyMap, tripsByRoute |-> EmptyMap, stopTimesByStop |-> EmptyMap,
      vehiclesByRoute |-> EmptyMap, vehiclesByTrip |-> EmptyMap,
      predictionsByStop |-> EmptyMap, predictionsByRoute |-> EmptyMap, predictionsByTrip |-> EmptyMap,
      lastStaticUpdate |-> 0, lastRealtimeUpdate |-> 0 ]

\* ---------------------------------------------------------- store.Clear
\* a Clear that empties the realtime maps as well
ClearWithRealtimeData(s) ==
    [s EXCEPT !.routes = EmptyMap, !.stops = EmptyMap, !.trips = EmptyMap, !.stopTimes = EmptyMap,
              !.stopsByRoute = EmptyMap, !.tripsByRoute = EmptyMap, !.stopTimesByStop = EmptyMap,
              !.vehicles = EmptyMap, !.vehiclesByRoute = EmptyMap, !.vehiclesByTrip = EmptyMap,
              !.predictions = EmptyMap, !.predictionsByStop = EmptyMap, !.predictionsByRoute = EmptyMap,
              !.predictionsByTrip = EmptyMap]

Clear(s) ==
    [s EXCEPT !.routes = EmptyMap, !.stops = EmptyMap, !.trips = EmptyMap, !.stopTimes = EmptyMap,
              !.stopsByRoute = EmptyMap, !.tripsByRoute = EmptyMap, !.stopTimesByStop = EmptyMap]

\* ------------------------------------------- models.Route, Stop, Trip, StopTime
\* A headsign is the sequence of its characters; <<>> is the empty string.
\* DirectionNames and DirectionDestinations are nil slices (<<>>) until built.
Route(id) == [ID |-> id, DirectionNames |-> <<>>, DirectionDestinations |-> <<>>]

Stop(id) == [ID |-> id]

Trip(id, route, dir, headsign) == [ID |-> id, RouteID |-> route, DirectionID |-> dir, Headsign |-> headsign]

StopTime(trip, stop, seq) == [TripID |-> trip, StopID |-> stop, StopSequence |-> seq]

\* -------------------------------------------------------- store.AddRoute
AddRoute(s, route) == [s EXCEPT !.routes = Put(@, route.ID, route)]

\* --------------------------------------------------------- store.AddStop
AddStop(s, stop) ==
    [s EXCEPT !.stops = Put(@, stop.ID, stop),
              !.stopTimesByStop = IF stop.ID \in DOMAIN @ THEN @ ELSE Put(@, stop.ID, EmptyMap)]

\* --------------------------------------------------------- store.AddTrip
AddTrip(s, trip) ==
    [s EXCEPT !.trips = Put(@, trip.ID, trip),
              !.tripsByRoute = AppendIndex(@, trip.RouteID, trip.ID),
              !.stopTimes = IF trip.ID \in DOMAIN @ THEN @ ELSE Put(@, trip.ID, EmptyMap)]

\* ----------------------------------------------------- store.AddStopTime
AddStopTime(s, stopTime) ==
    LET route == IF stopTime.TripID \in DOMAIN s.trips THEN s.trips[stopTime.TripID].RouteID ELSE ""
        ids   == Get(s.stopsByRoute, route, <<>>)
    IN  [s EXCEPT !.stopTimes = Put(@, stopTime.TripID, Put(Get(@, stopTime.TripID, EmptyMap), stopTime.StopID, stopTime)),
                  !.stopTimesByStop = Put(@, stopTime.StopID, Put(Get(@, stopTime.StopID, EmptyMap), stopTime.TripID, stopTime)),
                  !.stopsByRoute = IF stopTime.TripID \in DOMAIN s.trips /\ stopTime.StopID \notin Range(ids)
                                   THEN Put(@, route, Append(ids, stopTime.StopID)) ELSE @]

\* ----------------------------------------------- store.BuildStopsByRoute
\* The outer loop visits the trips in tripOrder; the inner loop visits the
\* stops of a trip in the order stopOrder gives them.
RECURSIVE AddStopsOfTrip(_, _, _, _)
AddStopsOfTrip(ids, stops, stopOrder, n) ==
    IF n = 0 THEN ids
    ELSE LET sofar == AddStopsOfTrip(ids, stops, stopOrder, n - 1)
         IN  IF stopOrder[n] \in stops /\ stopOrder[n] \notin Range(sofar) THEN Append(sofar, stopOrder[n]) ELSE sofar

RECURSIVE StopsByRouteOf(_, _, _, _)
StopsByRouteOf(s, tripOrder, stopOrder, n) ==
    IF n = 0 THEN EmptyMap
    ELSE LET idx  == StopsByRouteOf(s, tripOrder, stopOrder, n - 1)
             trip == s.trips[tripOrder[n]]
             ids  == AddStopsOfTrip(Get(idx, trip.RouteID, <<>>), DOMAIN s.stopTimes[trip.ID], stopOrder, Len(stopOrder))
         IN  IF trip.ID \in DOMAIN s.stopTimes /\ ids # <<>> THEN Put(idx, trip.RouteID, ids) ELSE idx

BuildStopsByRoute(s, tripOrder, stopOrder) ==
    [s EXCEPT !.stopsByRoute = StopsByRouteOf(s, tripOrder, stopOrder, Len(tripOrder))]

\* --------------------------------------------- store.BuildRouteDirections
\* the token " TO "
Token == <<" ", "T", "O", " ">>

\* strings.Index(headsign, " TO "): the position (from 1) where the first
\* occurrence of the token starts, 0 when there is none
ToIndex(headsign) ==
    LET at == {i \in 1..(Len(headsign) - 3) : SubSeq(headsign, i, i + 3) = Token}
    IN  IF at = {} THEN 0 ELSE CHOOSE i \in at : \A j \in at : i <= j

\* the headsigns collected for a route and a direction
HeadsignsOf(s, route, dir) ==
    {s.trips[t].Headsign : t \in {x \in DOMAIN s.trips : s.trips[x].RouteID = route /\ s.trips[x].DirectionID = dir /\ s.trips[x].Headsign # <<>>}}

\* the routes the first loop makes an entry for, and the directions of each
RoutesWithTrips(s) == {s.trips[t].RouteID : t \in DOMAIN s.trips}

DirectionsOf(s, route) == {s.trips[t].DirectionID : t \in {x \in DOMAIN s.trips : s.trips[x].RouteID = route}}

\* "for headsign := range headsigns { ...; break }" takes whichever headsign
\* the map yields first: pick[<<route, dir>>] is that headsign
DirectionPicks(s) ==
    LET keys == {<<r, d>> \in RoutesWithTrips(s) \X {0, 1} : HeadsignsOf(s, r, d) # {}}
    IN  {pick \in [keys -> UNION {HeadsignsOf(s, k[1], k[2]) : k \in keys}] : \A k \in keys : pick[k] \in HeadsignsOf(s, k[1], k[2])}

\* a plausible slip: the destination keeps the "TO " in front of it
DirectionDestinationWithTo(headsign) ==
    IF ToIndex(headsign) # 0 THEN SubSeq(headsign, ToIndex(headsign) + 1, Len(headsign)) ELSE headsign

\* headsign[toIndex+4:], everything after the token
DirectionDestination(headsign) ==
    IF ToIndex(headsign) # 0 THEN SubSeq(headsign, ToIndex(headsign) + 4, Len(headsign)) ELSE headsign

\* "TO " + destination
DirectionName(headsign) ==
    IF ToIndex(headsign) # 0 THEN <<"T", "O", " ">> \o DirectionDestination(headsign) ELSE headsign

BuildRouteDirections(s, pick) ==
    [s EXCEPT !.routes = [id \in DOMAIN s.routes |->
        IF id \notin RoutesWithTrips(s) THEN s.routes[id]
        ELSE [s.routes[id] EXCEPT
                !.DirectionNames = [d \in 1..2 |-> IF <<id, d - 1>> \in DOMAIN pick THEN DirectionName(pick[<<id, d - 1>>]) ELSE <<>>],
                !.DirectionDestinations = [d \in 1..2 |-> IF <<id, d - 1>> \in DOMAIN pick THEN DirectionDestination(pick[<<id, d - 1>>]) ELSE <<>>]]]]

\* -------------------------------------------------- store.SetLastStaticUpdate
SetLastStaticUpdate(s, t) == [s EXCEPT !.lastStaticUpdate = t]

\* ------------------------------------------------ store.SetLastRealtimeUpdate
SetLastRealtimeUpdate(s, t) == [s EXCEPT !.lastRealtimeUpdate = t]

\* ----------------------------------------------------------- store.GetTrip
GetTrip(s, id) == Get(s.trips, id, Nil)

\* ------------------------------------------------ store.ClearRealtimeData
ClearRealtimeData(s) ==
    [s EXCEPT !.vehicles = EmptyMap, !.predictions = EmptyMap,
              !.vehiclesByRoute = EmptyMap, !.vehiclesByTrip = EmptyMap,
              !.predictionsByStop = EmptyMap, !.predictionsByRoute = EmptyMap,
              !.predictionsByTrip = EmptyMap]

\* --------------------------------------------------- store.UpdateVehicles
\* The loop "for id, vehicle := range vehicles" visits the keys in `order`.
RECURSIVE BuildVehiclesByRoute(_, _, _)
BuildVehiclesByRoute(vehicles, order, n) ==
    IF n = 0 THEN EmptyMap
    ELSE LET idx == BuildVehiclesByRoute(vehicles, order, n - 1)
             id  == order[n]
         IN  IF vehicles[id].RouteID # "" THEN AppendIndex(idx, vehicles[id].RouteID, id) ELSE idx

RECURSIVE BuildVehiclesByTrip(_, _, _)
BuildVehiclesByTrip(vehicles, order, n) ==
    IF n = 0 THEN EmptyMap
    ELSE LET idx == BuildVehiclesByTrip(vehicles, order, n - 1)
             id  == order[n]
         IN  IF vehicles[id].TripID # "" THEN Put(idx, vehicles[id].TripID, id) ELSE idx

\* a plausible slip: the new map is merged into the old one instead of replacing it
UpdateVehiclesMerging(s, vehicles, order) ==
    [s EXCEPT !.vehicles = [id \in DOMAIN s.vehicles \cup DOMAIN vehicles |->
                                IF id \in DOMAIN vehicles THEN vehicles[id] ELSE s.vehicles[id]],
              !.vehiclesByRoute = BuildVehiclesByRoute(vehicles, order, Len(order)),
              !.vehiclesByTrip = BuildVehiclesByTrip(vehicles, order, Len(order))]

UpdateVehicles(s, vehicles, order) ==
    [s EXCEPT !.vehicles = vehicles,
              !.vehiclesByRoute = BuildVehiclesByRoute(vehicles, order, Len(order)),
              !.vehiclesByTrip = BuildVehiclesByTrip(vehicles, order, Len(order))]

\* ------------------------------------------------ store.UpdatePredictions
\* field is "StopID", "RouteID" or "TripID": the three index loops share one body
RECURSIVE BuildPredictionIndex(_, _, _, _)
BuildPredictionIndex(predictions, order, field, n) ==
    IF n = 0 THEN EmptyMap
    ELSE LET idx == BuildPredictionIndex(predictions, order, field, n - 1)
             id  == order[n]
         IN  IF predictions[id][field] # "" THEN AppendIndex(idx, predictions[id][field], id) ELSE idx

UpdatePredictions(s, predictions, order) ==
    [s EXCEPT !.predictions = predictions,
              !.predictionsByStop = BuildPredictionIndex(predictions, order, "StopID", Len(order)),
              !.predictionsByRoute = BuildPredictionIndex(predictions, order, "RouteID", Len(order)),
              !.predictionsByTrip = BuildPredictionIndex(predictions, order, "TripID", Len(order))]

\* ------------------------------------------------------- store.AddVehicle
AddVehicle(s, vehicle) ==
    LET ids == Get(s.vehiclesByRoute, vehicle.RouteID, <<>>)
    IN  [s EXCEPT !.vehicles = Put(s.vehicles, vehicle.ID, vehicle),
                  !.vehiclesByTrip = Put(s.vehiclesByTrip, vehicle.TripID, vehicle.ID),
                  !.vehiclesByRoute = IF vehicle.ID \in Range(ids) THEN @
                                      ELSE Put(@, vehicle.RouteID, Append(ids, vehicle.ID))]

\* ---------------------------------------------------- store.AddPrediction
AddPrediction(s, prediction) ==
    [s EXCEPT !.predictions = Put(s.predictions, prediction.ID, prediction),
              !.predictionsByStop = AppendIndex(@, prediction.StopID, prediction.ID),
              !.predictionsByRoute = AppendIndex(@, prediction.RouteID, prediction.ID),
              !.predictionsByTrip = AppendIndex(@, prediction.TripID, prediction.ID)]

\* ------------------------------------------------- store.RemovePrediction
\* the loop that cuts the first occurrence of id out of a list and breaks
RemoveFirst(ids, id) ==
    IF id \notin Range(ids) THEN ids
    ELSE LET i == CHOOSE k \in DOMAIN ids : ids[k] = id /\ \A j \in 1..(k - 1) : ids[j] # id
         IN  SubSeq(ids, 1, i - 1) \o SubSeq(ids, i + 1, Len(ids))

\* idx[key] is reassigned only when id is found in it, and only for a non-empty key
RemoveFromIndex(idx, key, id) ==
    IF key # "" /\ id \in Range(Get(idx, key, <<>>)) THEN Put(idx, key, RemoveFirst(idx[key], id)) ELSE idx

RemovePrediction(s, id) ==
    IF id \notin DOMAIN s.predictions THEN s
    ELSE LET prediction == s.predictions[id]
         IN  [s EXCEPT !.predictions = Delete(@, id),
                       !.predictionsByStop = RemoveFromIndex(@, prediction.StopID, id),
                       !.predictionsByRoute = RemoveFromIndex(@, prediction.RouteID, id),
                       !.predictionsByTrip = RemoveFromIndex(@, prediction.TripID, id)]

\* ------------------------------------------------- gtfs.Loader (tables)
\* A file of the archive: its name, its rows (one record per CSV record, keyed
\* by header name, as readCSV returns them) and whether reading it fails.
File(name, rows, corrupt) == [name |-> name, rows |-> rows, corrupt |-> corrupt]

\* processRoutes, processStops, processTrips, processStopTimes: one Add call per row
RECURSIVE ProcessRows(_, _, _, _)
ProcessRows(s, name, rows, n) ==
    IF n = 0 THEN s
    ELSE LET sofar == ProcessRows(s, name, rows, n - 1)
             row   == rows[n]
         IN  CASE name = "routes.txt" -> AddRoute(sofar, Route(row.route_id))
               [] name = "stops.txt" -> AddStop(sofar, Stop(row.stop_id))
               [] name = "trips.txt" -> AddTrip(sofar, Trip(row.trip_id, row.route_id, row.direction_id, row.trip_headsign))
               [] name = "stop_times.txt" -> AddStopTime(sofar, StopTime(row.trip_id, row.stop_id, row.stop_sequence))
               [] OTHER -> sofar

ProcessFile(s, file) == ProcessRows(s, file.name, file.rows, Len(file.rows))

RECURSIVE ProcessFiles(_, _, _)
ProcessFiles(s, files, n) == IF n = 0 THEN s ELSE ProcessFile(ProcessFiles(s, files, n - 1), files[n])

\* the stop IDs the stop-time maps of the trips hold
StopTimeStops(s) == UNION {DOMAIN s.stopTimes[t] : t \in DOMAIN s.stopTimes}

\* the static fields of the store
StaticFields == {"routes", "stops", "trips", "stopTimes", "stopsByRoute", "tripsByRoute", "stopTimesByStop"}

StaticOf(s) == [f \in StaticFields |-> s[f]]

\* the stores a Load of `files` that parses every file can end with, starting
\* from store s (one for each order in which the maps may be walked)
LoadedStores(s, files) ==
    LET loaded == ProcessFiles(Clear(s), files, Len(files))
        built  == {BuildStopsByRoute(loaded, tripOrder, stopOrder) :
                      tripOrder \in Orders(DOMAIN loaded.trips), stopOrder \in Orders(StopTimeStops(loaded))}
    IN  UNION {{BuildRouteDirections(b, pick) : pick \in DirectionPicks(b)} : b \in built}

\* ------------------------------------------------------- store accessors
GetVehicle(s, id) == Get(s.vehicles, id, Nil)

GetAllVehicles(s) == {s.vehicles[id] : id \in DOMAIN s.vehicles}

GetPrediction(s, id) == Get(s.predictions, id, Nil)

GetAllPredictions(s) == {s.predictions[id] : id \in DOMAIN s.predictions}

\* ================================================ GTFS-realtime feeds
\* A FeedEntity with a VehiclePosition.  Pointer fields of the message are a
\* has-flag and a value; a string or number that the code reads through its
\* getter, or copies only when set, is the value itself ("" or 0 when unset).
VehicleEntity(hasVehicle, hasDescriptor, hasId, id, hasPosition, hasTrip, tripId, routeId, directionId) ==
    [hasVehicle |-> hasVehicle, hasDescriptor |-> hasDescriptor, hasId |-> hasId, Id |-> id, hasPosition |-> hasPosition,
     hasTrip |-> hasTrip, TripId |-> tripId, RouteId |-> routeId, DirectionId |-> directionId,
     StopId |-> "", hasCurrentStopSequence |-> FALSE, CurrentStopSequence |-> 0]

\* the same VehiclePosition with its stop_id, or its current_stop_sequence, set
WithStopId(vp, stopId) == [vp EXCEPT !.StopId = stopId]

WithCurrentStopSequence(vp, n) == [vp EXCEPT !.hasCurrentStopSequence = TRUE, !.CurrentStopSequence = n]

StopTimeUpdate(hasStopId, stopId, hasArrival, arrival, hasDeparture, departure) ==
    [hasStopId |-> hasStopId, StopId |-> stopId, hasArrival |-> hasArrival, Arrival |-> arrival,
     hasDeparture |-> hasDeparture, Departure |-> departure]

\* A FeedEntity with a TripUpdate
TripUpdateEntity(hasTripUpdate, hasTrip, hasTripId, tripId, routeId, directionId, stopTimeUpdates) ==
    [hasTripUpdate |-> hasTripUpdate, hasTrip |-> hasTrip, hasTripId |-> hasTripId, TripId |-> tripId, RouteId |-> routeId,
     DirectionId |-> directionId, StopTimeUpdate |-> stopTimeUpdates]

\* =========================================== the single-file server (main.go)
\* Times are counted in units of 30 seconds, the realtime polling interval.
realtimeUpdateInterval == 1

ServerRoute(id) == [ID |-> id, DirectionDestinations |-> <<>>]

ServerStop(id) == [ID |-> id]

ServerTrip(id, route, headsign, dir) == [ID |-> id, RouteID |-> route, Headsign |-> headsign, Direction |-> dir]

ServerStopTime(trip, stop, seq) == [TripID |-> trip, StopID |-> stop, StopSequence |-> seq]

\* the GTFSData that NewServer and parseGTFS start from
NewGTFSData ==
    [routes |-> EmptyMap, stops |-> EmptyMap, shapes |-> EmptyMap, trips |-> EmptyMap,
     stopTimes |-> EmptyMap, tripStops |-> EmptyMap, routeStops |-> EmptyMap]

NewRealtimeData == [vehicles |-> EmptyMap, predictions |-> EmptyMap, tripPredictions |-> EmptyMap, lastUpdate |-> 0]

NewServer == [gtfs |-> NewGTFSData, realtime |-> NewRealtimeData]

\* parseRoutes, parseStops, parseTrips, parseStopTimes: the row handlers
RECURSIVE ParseRows(_, _, _, _)
ParseRows(gtfs, name, rows, n) ==
    IF n = 0 THEN gtfs
    ELSE LET sofar == ParseRows(gtfs, name, rows, n - 1)
             row   == rows[n]
         IN  CASE name = "routes.txt" -> [sofar EXCEPT !.routes = Put(@, row.route_id, ServerRoute(row.route_id))]
               [] name = "stops.txt" -> [sofar EXCEPT !.stops = Put(@, row.stop_id, ServerStop(row.stop_id))]
               [] name = "trips.txt" -> [sofar EXCEPT !.trips = Put(@, row.trip_id, ServerTrip(row.trip_id, row.route_id, row.trip_headsign, row.direction_id))]
               [] name = "stop_times.txt" ->
                    LET stopTime == ServerStopTime(row.trip_id, row.stop_id, row.stop_sequence)
                    IN  [sofar EXCEPT !.stopTimes = AppendIndex(@, stopTime.StopID, stopTime),
                                      !.tripStops = AppendIndex(@, stopTime.TripID, stopTime)]
               [] OTHER -> sofar

RECURSIVE ParseFiles(_, _, _)
ParseFiles(gtfs, files, n) ==
    IF n = 0 THEN gtfs
    ELSE ParseRows(ParseFiles(gtfs, files, n - 1), files[n].name, files[n].rows, Len(files[n].rows))

\* the stops buildRouteStopMappings collects for a route: those of the stop
\* times of the route's trips
RouteStopSet(gtfs, route) ==
    {stopID \in DOMAIN gtfs.stopTimes :
        \E i \in DOMAIN gtfs.stopTimes[stopID] :
            LET tripID == gtfs.stopTimes[stopID][i].TripID
            IN  tripID \in DOMAIN gtfs.trips /\ gtfs.trips[tripID].RouteID = route}

\* slices.Collect(maps.Keys(stopSet)) yields the keys in any order
RouteStopOrders(gtfs) ==
    LET routes == {gtfs.trips[t].RouteID : t \in DOMAIN gtfs.trips}
    IN  {order \in [routes -> UNION {Orders(RouteStopSet(gtfs, r)) : r \in routes}] :
            \A r \in routes : order[r] \in Orders(RouteStopSet(gtfs, r))}

buildRouteStopMappings(gtfs, order) ==
    [gtfs EXCEPT !.routeStops = [r \in DOMAIN @ \cup DOMAIN order |-> IF r \in DOMAIN order THEN order[r] ELSE @[r]]]

\* strings.TrimSpace: the text without its leading and trailing spaces
TrimSpace(text) ==
    LET inked == {i \in 1..Len(text) : text[i] # " "}
    IN  IF inked = {} THEN <<>>
        ELSE SubSeq(text, CHOOSE i \in inked : \A j \in inked : i <= j,
                          CHOOSE i \in inked : \A j \in inked : j <= i)

\* a plausible slip: only the space in front of "TO" is cut off
cleanCOTADestinationUntrimmed(destination) ==
    IF ToIndex(destination) = 0 THEN destination
    ELSE SubSeq(destination, ToIndex(destination) + 1, Len(destination))

\* the text from the first token on, trimmed; the headsign itself when it
\* has no token or nothing is left
cleanCOTADestination(destination) ==
    IF ToIndex(destination) = 0 THEN destination
    ELSE LET cleaned == TrimSpace(SubSeq(destination, ToIndex(destination), Len(destination)))
         IN  IF cleaned = <<>> THEN destination ELSE cleaned

\* the trips of a route in a direction
ServerTripsOf(gtfs, route, dir) == {t \in DOMAIN gtfs.trips : gtfs.trips[t].RouteID = route /\ gtfs.trips[t].Direction = dir}

\* the loop over newGTFS.trips assigns directionDestinations[trip.Direction]
\* once per trip, so the trip visited last decides: pick[<<route, dir>>]
DestinationPicks(gtfs) ==
    LET keys == {k \in (DOMAIN gtfs.routes) \X {0, 1} : ServerTripsOf(gtfs, k[1], k[2]) # {}}
    IN  {pick \in [keys -> DOMAIN gtfs.trips] : \A k \in keys : pick[k] \in ServerTripsOf(gtfs, k[1], k[2])}

setDirectionDestinations(gtfs, pick) ==
    [gtfs EXCEPT !.routes = [r \in DOMAIN gtfs.routes |->
        [gtfs.routes[r] EXCEPT !.DirectionDestinations =
            [d \in 1..2 |-> IF <<r, d - 1>> \in DOMAIN pick THEN cleanCOTADestination(gtfs.trips[pick[<<r, d - 1>>]].Headsign) ELSE <<>>]]]]

\* directionDestinations has two elements: a trip of a known route with
\* another direction is an index out of range
ParsePanics(gtfs) == \E t \in DOMAIN gtfs.trips : gtfs.trips[t].RouteID \in DOMAIN gtfs.routes /\ gtfs.trips[t].Direction \notin {0, 1}

\* a file on disk: absent, not a zip archive, or an archive
AbsentFile == [state |-> "absent", files |-> <<>>]

UnreadableFile == [state |-> "unreadable", files |-> <<>>]

ArchiveFile(files) == [state |-> "archive", files |-> files]

ParseOutcome(result, gtfs) == [result |-> result, gtfs |-> gtfs]

\* parseGTFS(filename): what it returns and, when it returns nil, the
\* GTFSData it has swapped in
parseGTFS(file) ==
    IF file.state # "archive" \/ (\E i \in 1..Len(file.files) : file.files[i].corrupt)
    THEN {ParseOutcome("error", NewGTFSData)}
    ELSE LET parsed == ParseFiles(NewGTFSData, file.files, Len(file.files))
         IN  IF ParsePanics(parsed) THEN {ParseOutcome("panic", NewGTFSData)}
             ELSE {ParseOutcome("ok", setDirectionDestinations(buildRouteStopMappings(parsed, order), pick)) :
                      order \in RouteStopOrders(parsed), pick \in DestinationPicks(parsed)}

\* what can go wrong in downloadAndParseGTFS before parseGTFS
ServerDownloadFailures == {"http.Get failed", "status not 200", "os.CreateTemp failed", "io.Copy failed"}

LoadOutcome(result, gtfs, copy) == [result |-> result, gtfs |-> gtfs, localCopy |-> copy]

\* loadGTFS with cota.gtfs.zip being `local` and the download yielding one of
\* `archives`, something that is no archive, or nothing
loadGTFS(local, archives) ==
    LET fallback == IF local.state = "absent" THEN {LoadOutcome("error", NewGTFSData, local)}
                    ELSE {LoadOutcome(second.result, second.gtfs, local) : second \in parseGTFS(local)}
        downloaded(file) ==
            UNION {CASE first.result = "ok" -> {LoadOutcome("ok", first.gtfs, copy) : copy \in {local, file, UnreadableFile}}
                     [] first.result = "panic" -> {LoadOutcome("panic", NewGTFSData, local)}
                     [] OTHER -> fallback
                   : first \in parseGTFS(file)}
    IN  fallback \cup UNION {downloaded(file) : file \in {UnreadableFile} \cup {ArchiveFile(a) : a \in archives}}

\* ------------------------------------------- Server.updateVehiclePositions
\* vp.Vehicle.GetId(), vp.Trip.GetTripId(): "" when the field is not set
GetId(vp) == IF vp.hasDescriptor /\ vp.hasId THEN vp.Id ELSE ""

GetTripId(e) == IF e.hasTrip THEN e.TripId ELSE ""

\* "if entity.Vehicle == nil", "if vp.Position == nil || vp.Vehicle == nil": continue
ServerSkipsVehicle(vp) == ~vp.hasVehicle \/ ~vp.hasPosition \/ ~vp.hasDescriptor

\* "Set direction_id from GTFS trip if available"
ServerVehicleDirection(gtfs, vp) ==
    IF vp.hasTrip /\ GetTripId(vp) \in DOMAIN gtfs.trips THEN gtfs.trips[GetTripId(vp)].Direction ELSE 0

\* "If no direct stop ID, try to derive it from trip and stop sequence":
\* whether the stop can be derived
DerivesStop(gtfs, vp) ==
    /\ vp.hasTrip /\ vp.hasCurrentStopSequence /\ GetTripId(vp) \in DOMAIN gtfs.tripStops
    /\ vp.CurrentStopSequence > 0 /\ vp.CurrentStopSequence <= Len(gtfs.tripStops[GetTripId(vp)])

\* a stop relationship that prefers the stop derived from the sequence
ServerVehicleStopDerivedFirst(gtfs, vp) ==
    IF DerivesStop(gtfs, vp) THEN gtfs.tripStops[GetTripId(vp)][vp.CurrentStopSequence].StopID ELSE vp.StopId

\* "Populate stop relationship data if available": the stop ID of the
\* entity, or else the stop of the element CurrentStopSequence (counted from
\* 1) of gtfs.tripStops[tripID]; "" when there is no stop relationship
ServerVehicleStop(gtfs, vp) ==
    IF vp.StopId # "" THEN vp.StopId
    ELSE IF DerivesStop(gtfs, vp) THEN gtfs.tripStops[GetTripId(vp)][vp.CurrentStopSequence].StopID
         ELSE ""

\* the Vehicle built for one entity: its ID, RouteID and DirectionID
\* attributes and its trip and stop relationships
ServerVehicle(gtfs, vp) ==
    [ID |-> GetId(vp), RouteID |-> IF vp.hasTrip THEN vp.RouteId ELSE "",
     DirectionID |-> ServerVehicleDirection(gtfs, vp),
     hasTrip |-> vp.hasTrip, TripID |-> GetTripId(vp),
     hasStop |-> vp.StopId # "" \/ DerivesStop(gtfs, vp),
     StopID |-> ServerVehicleStop(gtfs, vp)]

\* ----------------------------------------------- Server.updateTripUpdates
\* "if entity.TripUpdate == nil", "if tu.Trip == nil": continue
ServerSkipsTripUpdate(tu) == ~tu.hasTripUpdate \/ ~tu.hasTrip

TripIdOf(tu) == IF tu.hasTrip /\ tu.hasTripId THEN tu.TripId ELSE ""

\* a plausible slip: the direction the feed carries is kept
ServerPredictionDirectionFromFeed(gtfs, tu) == tu.DirectionId

\* "Get direction_id from GTFS trip data, fallback to realtime data"
ServerPredictionDirection(gtfs, tu) ==
    IF TripIdOf(tu) \in DOMAIN gtfs.trips THEN gtfs.trips[TripIdOf(tu)].Direction ELSE tu.DirectionId

\* fmt.Sprintf("%s-%s", tripID, stopID)
PredictionID(tripID, stopID) == tripID \o "-" \o stopID

ServerPrediction(gtfs, tu, stu) ==
    [ID |-> PredictionID(TripIdOf(tu), stu.StopId), DirectionID |-> ServerPredictionDirection(gtfs, tu), StopID |-> stu.StopId,
     hasArrivalTime |-> stu.hasArrival, ArrivalTime |-> IF stu.hasArrival THEN stu.Arrival ELSE 0,
     hasDepartureTime |-> stu.hasDeparture, DepartureTime |-> IF stu.hasDeparture THEN stu.Departure ELSE 0]

\* a predictionTime that is the arrival whenever there is one
PredictionTimeArrivalFirst(stu) == IF stu.hasArrival THEN stu.Arrival ELSE stu.Departure

\* predictionTime: the arrival, or the departure if there is no arrival or
\* the departure is later
PredictionTime(stu) ==
    IF stu.hasDeparture /\ (~stu.hasArrival \/ stu.Departure > stu.Arrival) THEN stu.Departure ELSE stu.Arrival

\* "Filter out predictions that are more than the update interval in the past"
TooOld(stu, now) == (stu.hasArrival \/ stu.hasDeparture) /\ PredictionTime(stu) < now - realtimeUpdateInterval

\* ------------------------------------ the single-file server's goroutines
\* main: loadGTFS, then updateRealtimeData, then the two updaters side by side
MainStart == [pc |-> "loadGTFS", loads |-> 0, panicked |-> FALSE]

\* before: realtime when the cycle began; vehiclesErr, tripsErr: whether
\* updateVehiclePositions and updateTripUpdates returned an error; waited:
\* the time that has passed since updateTripUpdates got its feed
PollIdle ==
    [pc |-> "idle", n |-> 0, feed |-> <<>>, i |-> 1, j |-> 1, vehicles |-> EmptyMap, predictions |-> EmptyMap,
     tripPredictions |-> EmptyMap, vehiclesErr |-> FALSE, tripsErr |-> FALSE, before |-> NewRealtimeData, waited |-> 0]

\* loadGTFS followed statement by statement.  file: the file parseGTFS has
\* been given; fresh: whether it is the download; newGTFS: the GTFSData
\* under construction; before, copyBefore: s.gtfs and cota.gtfs.zip when
\* loadGTFS was called; fallbacks: the fallbacks to the local file so far
ParseIdle ==
    [pc |-> "idle", n |-> 0, file |-> AbsentFile, fresh |-> FALSE, next |-> 1, newGTFS |-> NewGTFSData, result |-> "none",
     before |-> NewGTFSData, copyBefore |-> AbsentFile, fallbacks |-> 0]

ServerInit == server = NewServer /\ localCopy = AbsentFile /\ main = MainStart /\ poll = PollIdle /\ parse = ParseIdle

\* ---------------------------------- the package-based server's goroutines
UpdaterIdle == [pc |-> "idle", n |-> 0, kind |-> "none", feed |-> <<>>, i |-> 1, built |-> EmptyMap, result |-> "none"]

RequestIdle == [pc |-> "idle", kind |-> "none", model |-> <<>>, resource |-> <<>>]

UpdaterInit == updater = UpdaterIdle /\ request = RequestIdle

\* ==================================================== the store on its own
\* The realtime operations of store.Store called one after the other, in any
\* order and with any arguments.
\* vehicles without trip and route, and vehicles that share or change them
StoreVehicleInputs(id) == {Vehicle(id, "", "", 0), Vehicle(id, "t1", "r1", 0), Vehicle(id, "t1", "r2", 0), Vehicle(id, "t2", "r1", 0)}

StorePredictionInputs(id) == {Prediction(id, "", "", "", 0), Prediction(id, "t1", "s1", "r1", 0), Prediction(id, "t1", "s2", "r1", 0)}

NoCall == [op |-> "NewStore", ids |-> {}, vehiclesBefore |-> {}, predictionsBefore |-> {}]

\* the call that has just returned: its name, the key set of its argument and
\* the IDs the store held when it was made
Call(op, ids) == [op |-> op, ids |-> ids, vehiclesBefore |-> DOMAIN store.vehicles, predictionsBefore |-> DOMAIN store.predictions]

\* --------------------------------------------------------- sync.RWMutex
MuFree == [writer |-> FALSE, readers |-> 0]

\* a plausible slip: the writer does not wait for the accessors holding RLock
MuCanLockDespiteReaders(m) == ~m.writer

\* Lock blocks while the mutex is held for reading or writing
MuCanLock(m) == ~m.writer /\ m.readers = 0

\* RLock blocks while the mutex is held for writing
MuCanRLock(m) == ~m.writer

\* ---------------------------------- the goroutines before their first call
WriterIdle == [pc |-> "idle", call |-> 0, fields |-> <<>>, values |-> <<>>]

ReaderIdle == [pc |-> "idle", accessor |-> "none", key |-> "", ids |-> <<>>, result |-> <<>>, index |-> 0, primary |-> 0]

RealtimeFields == {"vehicles", "vehiclesByRoute", "vehiclesByTrip", "predictions", "predictionsByStop", "predictionsByRoute", "predictionsByTrip"}

LockInit == mu = MuFree /\ writer = WriterIdle /\ reader = ReaderIdle /\ installedBy = [f \in RealtimeFields |-> 0]

\* ---------------------------------------------------------- gtfs.Loader
\* before: the static data and lastStaticUpdate when Load was called
LoaderIdle == [pc |-> "idle", n |-> 0, files |-> <<>>, result |-> "none", before |-> <<>>, next |-> 1]

LoadInit == loader = LoaderIdle /\ clock = 1

StoreInit == store = NewStore /\ last = NoCall /\ nops = 0

\* no process started: the goroutines of SpecTasks do not exist
NoProcess == [binary |-> "none"]

Objects == StoreInit /\ LockInit /\ LoadInit /\ ServerInit /\ UpdaterInit

Constructed == Objects /\ tasks = NoProcess

Init == Constructed /\ published = <<>>

StoreVehicleMaps == MapsOver([id \in VehicleIDs |-> StoreVehicleInputs(id)])

StorePredictionMaps == MapsOver([id \in PredictionIDs |-> StorePredictionInputs(id)])

CallUpdateVehicles(maps) ==
    /\ nops < MaxOps
    /\ \E vehicles \in maps : \E order \in Orders(DOMAIN vehicles) :
          /\ store' = UpdateVehicles(store, vehicles, order)
          /\ last' = Call("UpdateVehicles", DOMAIN vehicles)
    /\ nops' = nops + 1
    /\ UNCHANGED outsideStore

CallUpdatePredictions(maps) ==
    /\ nops < MaxOps
    /\ \E predictions \in maps : \E order \in Orders(DOMAIN predictions) :
          /\ store' = UpdatePredictions(store, predictions, order)
          /\ last' = Call("UpdatePredictions", DOMAIN predictions)
    /\ nops' = nops + 1
    /\ UNCHANGED outsideStore

CallAddVehicle ==
    /\ nops < MaxOps
    /\ \E id \in VehicleIDs : \E vehicle \in StoreVehicleInputs(id) :
          /\ store' = AddVehicle(store, vehicle)
          /\ last' = Call("AddVehicle", {id})
    /\ nops' = nops + 1
    /\ UNCHANGED outsideStore

CallAddPrediction ==
    /\ nops < MaxOps
    /\ \E id \in PredictionIDs : \E prediction \in StorePredictionInputs(id) :
          /\ store' = AddPrediction(store, prediction)
          /\ last' = Call("AddPrediction", {id})
    /\ nops' = nops + 1
    /\ UNCHANGED outsideStore

CallRemovePrediction ==
    /\ nops < MaxOps
    /\ \E id \in PredictionIDs :
          /\ store' = RemovePrediction(store, id)
          /\ last' = Call("RemovePrediction", {id})
    /\ nops' = nops + 1
    /\ UNCHANGED outsideStore

CallClearRealtimeData ==
    /\ nops < MaxOps
    /\ store' = ClearRealtimeData(store)
    /\ last' = Call("ClearRealtimeData", {})
    /\ nops' = nops + 1
    /\ UNCHANGED outsideStore

vars == <<store, last, nops, mu, writer, reader, installedBy, loader, clock, server, localCopy, main, poll, updater, request, published, parse, tasks>>

StoreNext ==
    \/ CallUpdateVehicles(StoreVehicleMaps)
    \/ CallUpdatePredictions(StorePredictionMaps)
    \/ CallAddVehicle
    \/ CallAddPrediction
    \/ CallRemovePrediction
    \/ CallClearRealtimeData

SpecStore == Init /\ [][StoreNext]_vars

\* C3: after UpdateVehicles(m) returns, the vehicle IDs the store holds
\* (GetAllVehicles, GetVehicle) are exactly the keys of m, whatever it held
\* before; likewise for UpdatePredictions.
UpdateReplacesWholeMap ==
    /\ last.op = "UpdateVehicles" =>
          /\ {v.ID : v \in GetAllVehicles(store)} = last.ids
          /\ \A id \in VehicleIDs : GetVehicle(store, id) # Nil <=> id \in last.ids
    /\ last.op = "UpdatePredictions" =>
          /\ {p.ID : p \in GetAllPredictions(store)} = last.ids
          /\ \A id \in PredictionIDs : GetPrediction(store, id) # Nil <=> id \in last.ids

\* two consecutive installs with disjoint, non-empty ID sets
DisjointUpdateReturned ==
    /\ last.op = "UpdateVehicles"
    /\ last.vehiclesBefore # {} /\ last.ids # {}
    /\ last.vehiclesBefore \cap last.ids = {}
    /\ nops >= 2

\* the IDs an index lists, over all its keys
IndexedIDs(idx) == UNION {Range(idx[k]) : k \in DOMAIN idx}

\* C4: every ID listed in vehiclesByRoute, vehiclesByTrip, predictionsByStop,
\* predictionsByRoute and predictionsByTrip is a key of the current vehicles
\* or predictions map.
IndexesReferenceStoredIDs ==
    /\ IndexedIDs(store.vehiclesByRoute) \subseteq DOMAIN store.vehicles
    /\ Range(store.vehiclesByTrip) \subseteq DOMAIN store.vehicles
    /\ IndexedIDs(store.predictionsByStop) \subseteq DOMAIN store.predictions
    /\ IndexedIDs(store.predictionsByRoute) \subseteq DOMAIN store.predictions
    /\ IndexedIDs(store.predictionsByTrip) \subseteq DOMAIN store.predictions


\* the entities of `primary` that the IDs of a list name, in the order of
\* the list; an ID without entity is passed over
Lookup(primary, ids) ==
    LET stored == SelectSeq(ids, LAMBDA id : id \in DOMAIN primary)
    IN  [i \in 1..Len(stored) |-> primary[stored[i]]]

GetVehiclesByRoute(s, routeID) == Lookup(s.vehicles, Get(s.vehiclesByRoute, routeID, <<>>))

GetVehicleByTrip(s, tripID) ==
    IF tripID \notin DOMAIN s.vehiclesByTrip THEN Nil ELSE Get(s.vehicles, s.vehiclesByTrip[tripID], Nil)

GetPredictionsByStop(s, stopID) == Lookup(s.predictions, Get(s.predictionsByStop, stopID, <<>>))

GetPredictionsByRoute(s, routeID) == Lookup(s.predictions, Get(s.predictionsByRoute, routeID, <<>>))

GetPredictionsByTrip(s, tripID) == Lookup(s.predictions, Get(s.predictionsByTrip, tripID, <<>>))

\* a returned slice lists no entity twice
EachOnce(slice) == \A i, j \in DOMAIN slice : slice[i].ID = slice[j].ID => i = j

StoreRouteIDs == {"r1", "r2"}

StoreTripIDs == {"t1", "t2"}

StoreStopIDs == {"s1", "s2"}

\* C33: for every non-empty route ID r, GetVehiclesByRoute(r) is exactly the
\* stored vehicles whose RouteID is r, each once; GetVehicleByTrip(t) is a
\* stored vehicle whose TripID is t, or nil when no stored vehicle has that
\* trip.
VehicleIndexesMatchVehicles ==
    /\ \A r \in StoreRouteIDs :
          /\ Range(GetVehiclesByRoute(store, r)) = {v \in GetAllVehicles(store) : v.RouteID = r}
          /\ EachOnce(GetVehiclesByRoute(store, r))
    /\ \A t \in StoreTripIDs :
          IF \E v \in GetAllVehicles(store) : v.TripID = t
          THEN GetVehicleByTrip(store, t) \in {v \in GetAllVehicles(store) : v.TripID = t}
          ELSE GetVehicleByTrip(store, t) = Nil

\* C34: GetPredictionsByStop, GetPredictionsByRoute and GetPredictionsByTrip
\* return every matching stored prediction at most once.
PredictionsReturnedOnce ==
    /\ \A k \in StoreStopIDs \cup {""} : EachOnce(GetPredictionsByStop(store, k))
    /\ \A k \in StoreRouteIDs \cup {""} : EachOnce(GetPredictionsByRoute(store, k))
    /\ \A k \in StoreTripIDs \cup {""} : EachOnce(GetPredictionsByTrip(store, k))


\* ============================================ the store under its RWMutex
\* One goroutine installs realtime maps (UpdateVehicles, UpdatePredictions)
\* while another runs an indexed accessor; every step below is one statement
\* of the Go code, so that the two interleave wherever the mutex lets them.
LockVehicleMaps == MapsOver([id \in {"v1"} |-> StoreVehicleInputs(id)])

LockPredictionMaps == MapsOver([id \in {"p1"} |-> StorePredictionInputs(id)])

\* the indexes are built from the argument before the mutex is taken
UpdateVehiclesBegin ==
    /\ writer.pc = "idle" /\ writer.call < MaxPolls
    /\ \E vehicles \in LockVehicleMaps : \E order \in Orders(DOMAIN vehicles) :
          LET new == UpdateVehicles(store, vehicles, order)
          IN  writer' = [pc |-> "lock", call |-> writer.call + 1,
                         fields |-> <<"vehicles", "vehiclesByRoute", "vehiclesByTrip">>,
                         values |-> <<new.vehicles, new.vehiclesByRoute, new.vehiclesByTrip>>]
    /\ UNCHANGED <<store, mu, reader, installedBy, outsideLock>>

UpdatePredictionsBegin ==
    /\ writer.pc = "idle" /\ writer.call < MaxPolls
    /\ \E predictions \in LockPredictionMaps : \E order \in Orders(DOMAIN predictions) :
          LET new == UpdatePredictions(store, predictions, order)
          IN  writer' = [pc |-> "lock", call |-> writer.call + 1,
                         fields |-> <<"predictions", "predictionsByStop", "predictionsByRoute", "predictionsByTrip">>,
                         values |-> <<new.predictions, new.predictionsByStop, new.predictionsByRoute, new.predictionsByTrip>>]
    /\ UNCHANGED <<store, mu, reader, installedBy, outsideLock>>

\* s.mu.Lock()
UpdateLock ==
    /\ writer.pc = "lock"
    /\ MuCanLock(mu)
    /\ mu' = [mu EXCEPT !.writer = TRUE]
    /\ writer' = [writer EXCEPT !.pc = "assign"]
    /\ UNCHANGED <<store, reader, installedBy, outsideLock>>

\* the next of the assignments "s.vehicles = vehicles", "s.vehiclesByRoute = ...", ...
UpdateAssign ==
    /\ writer.pc = "assign" /\ writer.fields # <<>>
    /\ store' = [store EXCEPT ![Head(writer.fields)] = Head(writer.values)]
    /\ installedBy' = [installedBy EXCEPT ![Head(writer.fields)] = writer.call]
    /\ writer' = [writer EXCEPT !.fields = Tail(@), !.values = Tail(@)]
    /\ UNCHANGED <<mu, reader, outsideLock>>

\* the deferred s.mu.Unlock()
UpdateUnlock ==
    /\ writer.pc = "assign" /\ writer.fields = <<>>
    /\ mu' = [mu EXCEPT !.writer = FALSE]
    /\ writer' = [writer EXCEPT !.pc = "idle"]
    /\ UNCHANGED <<store, reader, installedBy, outsideLock>>

Accessors == {"GetVehiclesByRoute", "GetVehicleByTrip", "GetPredictionsByStop", "GetPredictionsByRoute", "GetPredictionsByTrip"}

AccessorIndex(accessor) ==
    CASE accessor = "GetVehiclesByRoute" -> "vehiclesByRoute"
      [] accessor = "GetVehicleByTrip" -> "vehiclesByTrip"
      [] accessor = "GetPredictionsByStop" -> "predictionsByStop"
      [] accessor = "GetPredictionsByRoute" -> "predictionsByRoute"
      [] accessor = "GetPredictionsByTrip" -> "predictionsByTrip"

AccessorPrimary(accessor) == IF accessor \in {"GetVehiclesByRoute", "GetVehicleByTrip"} THEN "vehicles" ELSE "predictions"

AccessorKeys(accessor) ==
    CASE accessor \in {"GetVehiclesByRoute", "GetPredictionsByRoute"} -> {"r1"}
      [] accessor \in {"GetVehicleByTrip", "GetPredictionsByTrip"} -> {"t1"}
      [] accessor = "GetPredictionsByStop" -> {"s1"}

AccessorCall ==
    /\ reader.pc \in {"idle", "returned"}
    /\ \E accessor \in Accessors : \E key \in AccessorKeys(accessor) :
          reader' = [ReaderIdle EXCEPT !.pc = "rlock", !.accessor = accessor, !.key = key]
    /\ UNCHANGED <<store, mu, writer, installedBy, outsideLock>>

\* s.mu.RLock()
AccessorRLock ==
    /\ reader.pc = "rlock"
    /\ MuCanRLock(mu)
    /\ mu' = [mu EXCEPT !.readers = @ + 1]
    /\ reader' = [reader EXCEPT !.pc = "index"]
    /\ UNCHANGED <<store, writer, installedBy, outsideLock>>

\* "vehicleIDs := s.vehiclesByRoute[routeID]", "vehicleID, ok := s.vehiclesByTrip[tripID]", ...
\* An accessor that finds nothing in the index returns without reading the primary map.
AccessorReadIndex ==
    /\ reader.pc = "index"
    /\ LET idx == store[AccessorIndex(reader.accessor)]
           ids == IF reader.accessor = "GetVehicleByTrip"
                  THEN (IF reader.key \in DOMAIN idx THEN <<idx[reader.key]>> ELSE <<>>)
                  ELSE Get(idx, reader.key, <<>>)
       IN  reader' = [reader EXCEPT !.ids = ids, !.index = installedBy[AccessorIndex(reader.accessor)],
                                    !.primary = -1,
                                    !.pc = IF ids = <<>> THEN "runlock" ELSE "primary"]
    /\ UNCHANGED <<store, mu, writer, installedBy, outsideLock>>

\* the loop "if vehicle, ok := s.vehicles[id]; ok { append }", or "return s.vehicles[vehicleID]"
AccessorReadPrimary ==
    /\ reader.pc = "primary"
    /\ LET m == store[AccessorPrimary(reader.accessor)]
           found == SelectSeq(reader.ids, LAMBDA id : id \in DOMAIN m)
       IN  reader' = [reader EXCEPT !.result = IF reader.accessor = "GetVehicleByTrip"
                                               THEN <<Get(m, reader.ids[1], Nil)>>
                                               ELSE [i \in 1..Len(found) |-> m[found[i]]],
                                    !.primary = installedBy[AccessorPrimary(reader.accessor)],
                                    !.pc = "runlock"]
    /\ UNCHANGED <<store, mu, writer, installedBy, outsideLock>>

\* the deferred s.mu.RUnlock()
AccessorRUnlock ==
    /\ reader.pc = "runlock"
    /\ mu' = [mu EXCEPT !.readers = @ - 1]
    /\ reader' = [reader EXCEPT !.pc = "returned"]
    /\ UNCHANGED <<store, writer, installedBy, outsideLock>>

LockNext ==
    \/ UpdateVehiclesBegin
    \/ UpdatePredictionsBegin
    \/ UpdateLock
    \/ UpdateAssign
    \/ UpdateUnlock
    \/ AccessorCall
    \/ AccessorRLock
    \/ AccessorReadIndex
    \/ AccessorReadPrimary
    \/ AccessorRUnlock

SpecLock == Init /\ [][LockNext]_vars

\* C2: every read call is computed from a primary map and a secondary index
\* that were installed by the same Update call.
ReadsOneInstall ==
    reader.pc \in {"runlock", "returned"} => reader.primary \in {-1, reader.index}

\* a read that used both the index and the map of an install made while
\* earlier installs had already been replaced
ReadAfterSecondInstall ==
    /\ reader.pc = "returned"
    /\ reader.result # <<>> /\ reader.result # <<Nil>>
    /\ reader.index >= 2 /\ reader.primary = reader.index

\* ===================================================== gtfs.Loader.Load
\* Load calls the store once per row and once per index; every call takes
\* the mutex for itself, so other goroutines see the store between the calls.
\* The steps below are: the download, Clear, one file, the two Build calls
\* and SetLastStaticUpdate.
RoutesFiles == {<<[route_id |-> "r1"]>>}

StopsFiles == {<<[stop_id |-> "s1"]>>, <<[stop_id |-> "s1"], [stop_id |-> "s2"]>>}

TripsFiles == {<<>>} \cup {<<[trip_id |-> "t1", route_id |-> "r1", direction_id |-> d, trip_headsign |-> h]>> : d \in {0, 1}, h \in {<<>>, <<"A", " ", "T", "O", " ", "B">>}}

StopTimesFiles == UNION {{[i \in 1..n |-> [trip_id |-> "t1", stop_id |-> stops[i], stop_sequence |-> i]] : stops \in [1..n -> StopIDs]} : n \in 0..MaxRows}

TableNames == <<"routes.txt", "stops.txt", "trips.txt", "stop_times.txt">>

\* an archive is the sequence of its files; at most one of them is unreadable
LoadArchives ==
    {<<File("routes.txt", r, c = "routes.txt"), File("stops.txt", st, c = "stops.txt"),
       File("trips.txt", tr, c = "trips.txt"), File("stop_times.txt", tm, c = "stop_times.txt")>> :
        r \in RoutesFiles, st \in StopsFiles, tr \in TripsFiles, tm \in StopTimesFiles,
        c \in {"none"} \cup Range(TableNames)}

\* what can go wrong before the archive is open
DownloadFailures == {"os.CreateTemp failed", "http.Get failed", "status not 200", "io.Copy failed", "zip.OpenReader failed"}

\* os.CreateTemp, http.Get, the status check, io.Copy and zip.OpenReader
LoadBegin(archives) ==
    /\ loader.pc \in {"idle", "returned"} /\ loader.n < MaxLoads
    /\ clock' = clock + 1
    /\ \/ \E failure \in DownloadFailures :
             loader' = [pc |-> "returned", n |-> loader.n + 1, files |-> <<>>, result |-> failure,
                        before |-> [static |-> StaticOf(store), lastStaticUpdate |-> store.lastStaticUpdate], next |-> 1]
       \/ \E archive \in archives :
             loader' = [pc |-> "clear", n |-> loader.n + 1, files |-> archive, result |-> "none",
                        before |-> [static |-> StaticOf(store), lastStaticUpdate |-> store.lastStaticUpdate], next |-> 1]
    /\ UNCHANGED <<store, outsideLoad>>

\* l.store.Clear()
LoadClear ==
    /\ loader.pc = "clear"
    /\ store' = Clear(store)
    /\ loader' = [loader EXCEPT !.pc = "files"]
    /\ UNCHANGED <<clock, outsideLoad>>

\* one turn of "for _, file := range zipReader.File"
LoadFile ==
    /\ loader.pc = "files" /\ loader.next <= Len(loader.files)
    /\ LET file == loader.files[loader.next]
       IN  IF file.corrupt
           THEN /\ loader' = [loader EXCEPT !.pc = "returned", !.result = "failed to process " \o file.name]
                /\ UNCHANGED store
           ELSE /\ store' = ProcessFile(store, file)
                /\ loader' = [loader EXCEPT !.next = @ + 1]
    /\ UNCHANGED <<clock, outsideLoad>>

\* l.store.BuildStopsByRoute()
LoadBuildStopsByRoute ==
    /\ loader.pc = "files" /\ loader.next > Len(loader.files)
    /\ \E tripOrder \in Orders(DOMAIN store.trips) : \E stopOrder \in Orders(StopTimeStops(store)) :
          store' = BuildStopsByRoute(store, tripOrder, stopOrder)
    /\ loader' = [loader EXCEPT !.pc = "directions"]
    /\ UNCHANGED <<clock, outsideLoad>>

\* l.store.BuildRouteDirections()
LoadBuildRouteDirections ==
    /\ loader.pc = "directions"
    /\ \E pick \in DirectionPicks(store) : store' = BuildRouteDirections(store, pick)
    /\ loader' = [loader EXCEPT !.pc = "finish"]
    /\ UNCHANGED <<clock, outsideLoad>>

\* l.store.SetLastStaticUpdate(time.Now()); return nil
LoadFinish ==
    /\ loader.pc = "finish"
    /\ store' = SetLastStaticUpdate(store, clock)
    /\ loader' = [loader EXCEPT !.pc = "returned", !.result = "ok"]
    /\ UNCHANGED <<clock, outsideLoad>>

LoadNext ==
    \/ LoadBegin(LoadArchives)
    \/ LoadClear
    \/ LoadFile
    \/ LoadBuildStopsByRoute
    \/ LoadBuildRouteDirections
    \/ LoadFinish

SpecLoad == Init /\ [][LoadNext]_vars

\* the static snapshots a running Load installs if it parses every file
NewSnapshots ==
    IF \E i \in 1..Len(loader.files) : loader.files[i].corrupt THEN {}
    ELSE {StaticOf(s) : s \in LoadedStores(store, loader.files)}

LoadRunning == loader.pc \in {"clear", "files", "directions", "finish"}

\* C1: while Load runs, what a reader of the store can observe between two
\* store calls of the loader is the complete static snapshot installed before
\* the load or the complete new one, never an empty or partly filled one.
ReaderSeesWholeSnapshot ==
    LoadRunning => \/ StaticOf(store) = loader.before.static
                   \/ StaticOf(store) \in NewSnapshots

\* C5: when Load has returned an error, the static entities and indexes are
\* those installed before the call and lastStaticUpdate is unchanged.
FailedLoadKeepsSnapshot ==
    (loader.pc = "returned" /\ loader.n > 0 /\ loader.result # "ok")
        => /\ StaticOf(store) = loader.before.static
           /\ store.lastStaticUpdate = loader.before.lastStaticUpdate

\* the values of the map of the trip, in no particular order
GetStopTimesByTrip(s, tripID) ==
    LET tripStopTimes == Get(s.stopTimes, tripID, EmptyMap)
    IN  {tripStopTimes[stopID] : stopID \in DOMAIN tripStopTimes}

\* the rows of stop_times.txt in the archive of the load
StopTimeRows == UNION {Range(loader.files[i].rows) : i \in {j \in DOMAIN loader.files : loader.files[j].name = "stop_times.txt"}}

\* C36: after a load has returned nil, GetStopTimesByTrip(t) holds one
\* entry for every stop_times row of the loaded trip t, that is one for each
\* stop_sequence of the trip, also when the trip serves a stop twice.
EveryStopTimeRowIsStored ==
    (loader.pc = "returned" /\ loader.result = "ok") =>
        \A t \in DOMAIN store.trips :
            {stopTime.StopSequence : stopTime \in GetStopTimesByTrip(store, t)}
                = {row.stop_sequence : row \in {r \in StopTimeRows : r.trip_id = t}}

\* ==================================================== the single-file server
\* what the vehicle positions feed may hold
VehicleEntities ==
    {VehicleEntity(FALSE, FALSE, FALSE, "", FALSE, FALSE, "", "", 0),
     VehicleEntity(TRUE, TRUE, TRUE, "v1", FALSE, TRUE, "t1", "r1", 1),
     VehicleEntity(TRUE, TRUE, TRUE, "v1", TRUE, FALSE, "", "", 0),
     VehicleEntity(TRUE, TRUE, FALSE, "", TRUE, FALSE, "", "", 0),
     VehicleEntity(TRUE, TRUE, TRUE, "v1", TRUE, TRUE, "t1", "", 0),
     VehicleEntity(TRUE, TRUE, TRUE, "v2", TRUE, TRUE, "t2", "r2", 1)}

VehicleFeeds == UNION {[1..n -> VehicleEntities] : n \in 0..MaxEntities}

\* a time long past and a time still to come
LongAgo == 0
Later == 9

\* what the trip updates feed may hold when it is fetched at the time now:
\* times long past, one poll interval before now, now, and still to come
TripUpdateEntities(now) ==
    {TripUpdateEntity(TRUE, FALSE, FALSE, "", "", 0, <<StopTimeUpdate(TRUE, "s1", FALSE, 0, FALSE, 0)>>),
     TripUpdateEntity(TRUE, TRUE, TRUE, "t1", "", 1, <<StopTimeUpdate(TRUE, "s1", TRUE, now, FALSE, 0),
                                                       StopTimeUpdate(TRUE, "s1", TRUE, Later, FALSE, 0)>>),
     TripUpdateEntity(TRUE, TRUE, TRUE, "t1", "r1", 0, <<StopTimeUpdate(TRUE, "s1", FALSE, 0, FALSE, 0), StopTimeUpdate(TRUE, "s2", TRUE, LongAgo, FALSE, 0)>>),
     TripUpdateEntity(TRUE, TRUE, TRUE, "t2", "r2", 1, <<StopTimeUpdate(FALSE, "", TRUE, Later, FALSE, 0),
                                                         StopTimeUpdate(TRUE, "s1", TRUE, LongAgo, TRUE, now - realtimeUpdateInterval)>>)}

TripUpdateFeeds(now) == UNION {[1..n -> TripUpdateEntities(now)] : n \in 0..MaxEntities}

\* the archives the static feed serves while the realtime feeds are polled:
\* one route, one stop, and no trip or the trip t1 in either direction
ServerArchives ==
    {a \in LoadArchives : Len(a[2].rows) = 1 /\ Len(a[4].rows) = 0 /\ ~a[1].corrupt /\ ~a[2].corrupt /\ ~a[4].corrupt
                          /\ \A i \in DOMAIN a[3].rows : a[3].rows[i].trip_headsign = <<>>}

\* loadGTFS, called by main and then by gtfsUpdater on every tick.  Only
\* its last step, the swap of s.gtfs, is visible to the other goroutines.
ServerLoadGTFS(archives) ==
    /\ ~main.panicked /\ main.pc \in {"loadGTFS", "serving"} /\ main.loads < MaxLoads
    /\ \E outcome \in loadGTFS(localCopy, archives) :
          /\ server' = IF outcome.result = "ok" THEN [server EXCEPT !.gtfs = outcome.gtfs] ELSE server
          /\ localCopy' = outcome.localCopy
          /\ main' = [pc |-> IF main.pc = "loadGTFS" THEN "updateRealtimeData" ELSE main.pc,
                      loads |-> main.loads + 1, panicked |-> outcome.result = "panic"]
    /\ UNCHANGED <<poll, clock, outsideServer>>

\* updateRealtimeData, called by main and then by realtimeUpdater on every
\* tick, up to the point where updateVehiclePositions has the feed or fails
\* (request, transport, status, body or decoding error)
UpdateRealtimeDataBegin(feeds) ==
    /\ ~main.panicked /\ main.pc \in {"updateRealtimeData", "serving"}
    /\ poll.pc = "idle" /\ poll.n < MaxCycles
    /\ clock' = clock + 1
    /\ \/ poll' = [PollIdle EXCEPT !.pc = "tripsFetch", !.n = poll.n, !.vehiclesErr = TRUE, !.before = server.realtime]
       \/ \E feed \in feeds :
             poll' = [PollIdle EXCEPT !.pc = "vehicles", !.n = poll.n, !.feed = feed, !.before = server.realtime]
    /\ UNCHANGED <<server, localCopy, main, outsideServer>>

\* one turn of "for _, entity := range feed.Entity" in updateVehiclePositions
VehiclePositionsBuild ==
    /\ poll.pc = "vehicles" /\ poll.i <= Len(poll.feed)
    /\ LET vp == poll.feed[poll.i]
       IN  poll' = [poll EXCEPT !.i = @ + 1,
                                !.vehicles = IF ServerSkipsVehicle(vp) THEN @ ELSE Put(@, GetId(vp), ServerVehicle(server.gtfs, vp))]
    /\ UNCHANGED <<server, localCopy, main, clock, outsideServer>>

\* "s.realtime.vehicles = vehicles"
VehiclePositionsSwap ==
    /\ poll.pc = "vehicles" /\ poll.i > Len(poll.feed)
    /\ server' = [server EXCEPT !.realtime.vehicles = poll.vehicles]
    /\ poll' = [poll EXCEPT !.pc = "tripsFetch", !.feed = <<>>, !.i = 1, !.vehicles = EmptyMap]
    /\ UNCHANGED <<localCopy, main, clock, outsideServer>>

\* updateTripUpdates up to the point where it has the feed or fails
TripUpdatesFetch(feeds) ==
    /\ poll.pc = "tripsFetch"
    /\ \/ poll' = [poll EXCEPT !.pc = "stamp", !.tripsErr = TRUE]
       \/ \E feed \in feeds : poll' = [poll EXCEPT !.pc = "trips", !.feed = feed, !.i = 1, !.j = 1]
    /\ UNCHANGED <<server, localCopy, main, clock, outsideServer>>

\* one turn of "for _, stu := range tu.StopTimeUpdate", or the step to the
\* next entity
TripUpdatesBuild ==
    /\ poll.pc = "trips" /\ poll.i <= Len(poll.feed)
    /\ LET tu == poll.feed[poll.i]
       IN  IF ServerSkipsTripUpdate(tu) \/ poll.j > Len(tu.StopTimeUpdate)
           THEN poll' = [poll EXCEPT !.i = @ + 1, !.j = 1]
           ELSE LET stu == tu.StopTimeUpdate[poll.j]
                    prediction == ServerPrediction(server.gtfs, tu, stu)
                IN  IF ~stu.hasStopId \/ TooOld(stu, clock)
                    THEN poll' = [poll EXCEPT !.j = @ + 1]
                    ELSE poll' = [poll EXCEPT !.j = @ + 1,
                                              !.predictions = AppendIndex(@, stu.StopId, prediction),
                                              !.tripPredictions = AppendIndex(@, TripIdOf(tu), prediction)]
    /\ UNCHANGED <<server, localCopy, main, clock, outsideServer>>

\* the clock moves on while updateTripUpdates works through its feed: each
\* prediction is compared with the time.Now() of its own turn of the loop,
\* and the maps are swapped in after the last turn
TimePasses ==
    /\ poll.pc = "trips" /\ poll.waited < MaxWait
    /\ clock' = clock + 1
    /\ poll' = [poll EXCEPT !.waited = @ + 1]
    /\ UNCHANGED <<server, localCopy, main, outsideServer>>

\* "s.realtime.predictions = predictions; s.realtime.tripPredictions = tripPredictions"
TripUpdatesSwap ==
    /\ poll.pc = "trips" /\ poll.i > Len(poll.feed)
    /\ server' = [server EXCEPT !.realtime.predictions = poll.predictions, !.realtime.tripPredictions = poll.tripPredictions]
    /\ poll' = [poll EXCEPT !.pc = "stamp", !.feed = <<>>, !.i = 1, !.j = 1, !.predictions = EmptyMap, !.tripPredictions = EmptyMap,
                             !.waited = 0]
    /\ UNCHANGED <<localCopy, main, clock, outsideServer>>

\* "s.realtime.lastUpdate = time.Now(); return nil"
UpdateRealtimeDataEnd ==
    /\ poll.pc = "stamp"
    /\ server' = [server EXCEPT !.realtime.lastUpdate = clock]
    /\ poll' = [poll EXCEPT !.pc = "idle", !.n = @ + 1]
    /\ main' = [main EXCEPT !.pc = "serving"]
    /\ UNCHANGED <<localCopy, clock, outsideServer>>

ServerNext ==
    \/ ServerLoadGTFS(ServerArchives)
    \/ UpdateRealtimeDataBegin(VehicleFeeds)
    \/ VehiclePositionsBuild
    \/ VehiclePositionsSwap
    \/ TripUpdatesFetch(TripUpdateFeeds(clock))
    \/ TripUpdatesBuild
    \/ TimePasses
    \/ TripUpdatesSwap
    \/ UpdateRealtimeDataEnd

SpecServer == Init /\ [][ServerNext]_vars

\* C7: a poll cycle of the single-file server in which the vehicle fetch and
\* the trip-update fetch both failed has left realtime.lastUpdate unchanged,
\* together with the vehicle and prediction maps.
FailedCycleKeepsRealtime ==
    (poll.pc = "idle" /\ poll.n > 0 /\ poll.vehiclesErr /\ poll.tripsErr) => server.realtime = poll.before

\* the Vehicle that the step has just built, if it has built one
VehicleBuilt ==
    /\ poll.pc = "vehicles" /\ poll'.pc = "vehicles" /\ poll'.i = poll.i + 1
    /\ ~ServerSkipsVehicle(poll.feed[poll.i])

\* the Prediction that the step has just built, if it has built one
PredictionBuilt ==
    /\ poll.pc = "trips" /\ poll'.pc = "trips" /\ poll'.j = poll.j + 1
    /\ poll'.tripPredictions # poll.tripPredictions

\* C9: in the single-file server a Vehicle or Prediction whose trip ID is a
\* key of gtfs.trips when it is built gets that trip's Direction as its
\* direction ID, whatever the feed carried.
BuiltWithTripDirection ==
    [][/\ VehicleBuilt =>
            LET vp == poll.feed[poll.i]
                vehicle == poll'.vehicles[GetId(vp)]
            IN  (vehicle.hasTrip /\ vehicle.TripID \in DOMAIN server.gtfs.trips)
                    => vehicle.DirectionID = server.gtfs.trips[vehicle.TripID].Direction
       /\ PredictionBuilt =>
            LET tripID == TripIdOf(poll.feed[poll.i])
                built == poll'.tripPredictions[tripID]
            IN  tripID \in DOMAIN server.gtfs.trips
                    => built[Len(built)].DirectionID = server.gtfs.trips[tripID].Direction]_vars

\* a prediction has been built for a trip update whose direction differs from
\* the trip's, after a vehicle of a known trip in direction 1 was installed
DirectionTakenFromTrip ==
    /\ poll.pc = "trips" /\ poll.i <= Len(poll.feed)
    /\ LET tu == poll.feed[poll.i]
       IN  /\ TripIdOf(tu) \in DOMAIN server.gtfs.trips /\ TripIdOf(tu) \in DOMAIN poll.tripPredictions
           /\ tu.DirectionId # server.gtfs.trips[TripIdOf(tu)].Direction
           /\ \A k \in DOMAIN poll.tripPredictions[TripIdOf(tu)] :
                 poll.tripPredictions[TripIdOf(tu)][k].DirectionID = server.gtfs.trips[TripIdOf(tu)].Direction
    /\ \E id \in DOMAIN server.realtime.vehicles :
          LET vehicle == server.realtime.vehicles[id]
          IN  vehicle.hasTrip /\ vehicle.TripID \in DOMAIN server.gtfs.trips /\ vehicle.DirectionID = 1

\* the comparison time of an installed Prediction: the later of its arrival
\* and departure times, or the one it has
InstalledTime(p) ==
    IF p.hasDepartureTime /\ (~p.hasArrivalTime \/ p.DepartureTime > p.ArrivalTime) THEN p.DepartureTime ELSE p.ArrivalTime

\* the step in which updateTripUpdates swaps its maps in
TripUpdatesInstalled == poll.pc = "trips" /\ poll'.pc = "stamp"

\* C11: at the moment updateTripUpdates of the single-file server installs
\* its maps, no installed prediction has a comparison time earlier than that
\* moment minus realtimeUpdateInterval, and every prediction of the feed
\* (trip and stop ID set) whose comparison time is that moment is installed.
InstalledPredictionsAreFresh ==
    [][TripUpdatesInstalled =>
        /\ \A stop \in DOMAIN server'.realtime.predictions : \A k \in DOMAIN server'.realtime.predictions[stop] :
              LET p == server'.realtime.predictions[stop][k]
              IN  (p.hasArrivalTime \/ p.hasDepartureTime) => InstalledTime(p) >= clock - realtimeUpdateInterval
        /\ \A i \in DOMAIN poll.feed : \A j \in DOMAIN poll.feed[i].StopTimeUpdate :
              LET tu == poll.feed[i]
                  stu == tu.StopTimeUpdate[j]
                  installed == Get(server'.realtime.predictions, stu.StopId, <<>>)
              IN  (~ServerSkipsTripUpdate(tu) /\ stu.hasStopId /\ (stu.hasArrival \/ stu.hasDeparture) /\ PredictionTime(stu) = clock)
                      => \E k \in DOMAIN installed : /\ installed[k].ID = PredictionID(TripIdOf(tu), stu.StopId)
                                                     /\ InstalledTime(installed[k]) = clock]_vars

\* C21: the predictions a trip-update poll has installed hold at most one
\* prediction for each pair of trip ID and stop ID, in the by-stop and
\* by-trip lists of the single-file server and in the store of the
\* package-based server, also when the feed repeats a pair.
OnePredictionPerTripAndStop ==
    /\ \A trip \in DOMAIN server.realtime.tripPredictions :
          LET list == server.realtime.tripPredictions[trip]
          IN  \A i, j \in DOMAIN list : list[i].StopID = list[j].StopID => i = j
    /\ \A stop \in DOMAIN server.realtime.predictions :
          LET list == server.realtime.predictions[stop]
          IN  \A i, j \in DOMAIN list : list[i].ID = list[j].ID => i = j
    /\ \A id1, id2 \in DOMAIN store.predictions :
          (store.predictions[id1].TripID = store.predictions[id2].TripID
              /\ store.predictions[id1].StopID = store.predictions[id2].StopID) => id1 = id2

\* ============================================ one archive, both servers
\* Both loaders given the same archive: the static feed serves `published`
\* throughout the run.
IndexInit == Constructed /\ published \in LoadArchives

IndexNext ==
    \/ LoadBegin({published})
    \/ LoadClear
    \/ LoadFile
    \/ LoadBuildStopsByRoute
    \/ LoadBuildRouteDirections
    \/ LoadFinish
    \/ ServerLoadGTFS({published})

SpecIndex == IndexInit /\ [][IndexNext]_vars

\* C8: in every static snapshot a load has installed, every stop ID in the
\* route-to-stops index (store.stopsByRoute, GTFSData.routeStops) is a key of
\* the snapshot's stop map.
RouteStopsAreStops ==
    /\ (loader.pc = "returned" /\ loader.result = "ok")
          => \A r \in DOMAIN store.stopsByRoute : Range(store.stopsByRoute[r]) \subseteq DOMAIN store.stops
    /\ \A r \in DOMAIN server.gtfs.routeStops : Range(server.gtfs.routeStops[r]) \subseteq DOMAIN server.gtfs.stops

\* ============================== direction destinations, both servers
\* Archives with up to two trips of the route r1, each in either direction
\* and with no headsign, a headsign with the token or one without it; the
\* route r2 has no trips.
WithToken == <<"A", " ", "T", "O", " ", "B">>
Plain == <<"B">>

DirectionTripsFiles ==
    LET ids == <<"t1", "t2">>
    IN  UNION {{[i \in 1..n |-> [trip_id |-> ids[i], route_id |-> "r1", direction_id |-> d[i], trip_headsign |-> h[i]]] :
                    d \in [1..n -> {0, 1}], h \in [1..n -> {<<>>, WithToken, Plain}]} : n \in 0..Len(ids)}

DirectionArchives ==
    {<<File("routes.txt", <<[route_id |-> "r1"], [route_id |-> "r2"]>>, FALSE), File("stops.txt", <<[stop_id |-> "s1"]>>, FALSE),
       File("trips.txt", tr, FALSE), File("stop_times.txt", <<>>, FALSE)>> : tr \in DirectionTripsFiles}

DirectionsInit == Constructed /\ published \in DirectionArchives

SpecDirections == DirectionsInit /\ [][IndexNext]_vars

\* BuildRouteDirections has run in the load that is under way or has returned
DirectionsBuilt == loader.pc = "finish" \/ (loader.pc = "returned" /\ loader.result = "ok")

\* the text after the first token of a headsign, or the whole headsign
AfterTokenOrAll(headsign) == IF ToIndex(headsign) # 0 THEN SubSeq(headsign, ToIndex(headsign) + 4, Len(headsign)) ELSE headsign

ServerHeadsignsOf(gtfs, route, dir) == {gtfs.trips[t].Headsign : t \in ServerTripsOf(gtfs, route, dir)} \ {<<>>}

\* C16: in the snapshot Server.parseGTFS installs, for every route and
\* direction d with a trip that has a non-empty headsign,
\* directionDestinations[d] is derived from a non-empty headsign of that
\* route and direction (the first one encountered): no trip encountered
\* later, with an empty headsign or another, changes it.
DestinationFromNonEmptyHeadsign ==
    \A r \in DOMAIN server.gtfs.routes : \A d \in {0, 1} :
        ServerHeadsignsOf(server.gtfs, r, d) # {} =>
            \E h \in ServerHeadsignsOf(server.gtfs, r, d) :
                server.gtfs.routes[r].DirectionDestinations[d + 1] = cleanCOTADestination(h)

\* C17: after a static load, a route none of whose trips has a non-empty
\* headsign has no direction names and no direction destinations (the
\* arrays are empty), in the store after BuildRouteDirections and in the
\* snapshot Server.parseGTFS installs.
NoHeadsignNoDirections ==
    /\ DirectionsBuilt =>
            \A r \in DOMAIN store.routes :
                (\A d \in {0, 1} : HeadsignsOf(store, r, d) = {})
                    => store.routes[r].DirectionNames = <<>> /\ store.routes[r].DirectionDestinations = <<>>
    /\ \A r \in DOMAIN server.gtfs.routes :
            (\A d \in {0, 1} : ServerHeadsignsOf(server.gtfs, r, d) = {})
                => server.gtfs.routes[r].DirectionDestinations = <<>>

\* ================================ store.GetRoute while Loader.Load runs
\* GetRoute returns the *models.Route that s.routes holds.  The routes of a
\* load are allocated by processRoutes and stay in s.routes until the next
\* Clear, so a pointer returned while no later Load has begun is the pointer
\* the store still holds.
GetRoute(s, id) == Get(s.routes, id, Nil)

\* s.routes holds the routes that the load numbered loader.n has added
RoutesOfThisLoad ==
    \/ loader.pc \in {"files", "directions", "finish"}
    \/ loader.pc = "returned" /\ loader.n > 0 /\ loader.result \notin DownloadFailures

\* a request goroutine calls GetRoute; index is the load whose route it was given
GetRouteCall ==
    /\ reader.pc \in {"idle", "returned"}
    /\ \E id \in {"r1"} :
          reader' = [ReaderIdle EXCEPT !.pc = "returned", !.accessor = "GetRoute", !.key = id,
                                       !.result = <<GetRoute(store, id)>>,
                                       !.index = IF RoutesOfThisLoad THEN loader.n ELSE 0]
    /\ UNCHANGED <<store, mu, writer, installedBy, outsideLock>>

AliasNext ==
    \/ LoadBegin({published})
    \/ LoadClear
    \/ LoadFile
    \/ LoadBuildStopsByRoute
    \/ LoadBuildRouteDirections
    \/ LoadFinish
    \/ GetRouteCall

SpecAlias == DirectionsInit /\ [][AliasNext]_vars

\* what the pointer the reader was given refers to now
ReturnedRouteNow ==
    IF reader.index > 0 /\ reader.index = loader.n /\ reader.key \in DOMAIN store.routes
    THEN store.routes[reader.key]
    ELSE reader.result[1]

\* C23: the Route a reader has obtained from GetRoute keeps the field values
\* it had when GetRoute returned, whatever the store does afterwards.
ReturnedRouteIsNeverChanged ==
    (reader.pc = "returned" /\ reader.accessor = "GetRoute" /\ reader.result # <<Nil>>)
        => ReturnedRouteNow = reader.result[1]

\* ================== the single-file server: a vehicle's stop relationship
\* the stop_times.txt tables whose rows for the trip t1 carry the stop
\* sequences 1..n in any order
UnorderedStopTimesFiles ==
    UNION {{[i \in 1..n |-> [trip_id |-> "t1", stop_id |-> stops[i], stop_sequence |-> seq[i]]] :
                stops \in [1..n -> StopIDs], seq \in Orders(1..n)} : n \in 1..MaxRows}

UnorderedArchives ==
    {<<File("routes.txt", <<[route_id |-> "r1"]>>, FALSE), File("stops.txt", <<[stop_id |-> "s1"], [stop_id |-> "s2"]>>, FALSE),
       File("trips.txt", <<[trip_id |-> "t1", route_id |-> "r1", direction_id |-> 0, trip_headsign |-> <<>>]>>, FALSE),
       File("stop_times.txt", tm, FALSE)>> : tm \in UnorderedStopTimesFiles}

\* vehicles of the trip t1 with a current stop sequence, with or without a
\* stop ID of their own, one with neither, and one of a trip t2 that no
\* archive holds
StopSequenceEntities ==
    LET vp == VehicleEntity(TRUE, TRUE, TRUE, "v1", TRUE, TRUE, "t1", "r1", 0)
    IN  {vp, WithStopId(WithCurrentStopSequence(vp, 1), "s2"),
         WithCurrentStopSequence(VehicleEntity(TRUE, TRUE, TRUE, "v1", TRUE, TRUE, "t2", "r1", 0), 1)}
            \cup {WithCurrentStopSequence(vp, n) : n \in 0..(MaxRows + 1)}

StopSequenceFeeds == UNION {[1..n -> StopSequenceEntities] : n \in 0..MaxEntities}

DeriveInit == Constructed /\ published \in UnorderedArchives

DeriveNext ==
    \/ ServerLoadGTFS({published})
    \/ UpdateRealtimeDataBegin(StopSequenceFeeds)
    \/ VehiclePositionsBuild
    \/ VehiclePositionsSwap

SpecDerive == DeriveInit /\ [][DeriveNext]_vars

\* the stop times of a trip in ascending order of stop_sequence
BySequence(stopTimes) ==
    CHOOSE sorted \in [1..Len(stopTimes) -> Range(stopTimes)] :
        /\ \A i \in DOMAIN stopTimes : \E k \in DOMAIN sorted : sorted[k] = stopTimes[i]
        /\ \A k \in 1..(Len(stopTimes) - 1) : sorted[k].StopSequence <= sorted[k + 1].StopSequence

\* C13: a Vehicle built by updateVehiclePositions for an entity without a
\* stop ID, with a trip that has stop times and the current stop sequence n
\* (1 <= n <= their number) gets as its stop the n-th stop time of the trip
\* in ascending order of stop_sequence, whatever the order of the rows.
DerivedStopIsNthBySequence ==
    [][VehicleBuilt =>
        LET vp == poll.feed[poll.i]
            vehicle == poll'.vehicles[GetId(vp)]
            tripID == GetTripId(vp)
        IN  (/\ vp.StopId = "" /\ vp.hasTrip /\ vp.hasCurrentStopSequence
             /\ tripID \in DOMAIN server.gtfs.tripStops
             /\ vp.CurrentStopSequence \in 1..Len(server.gtfs.tripStops[tripID]))
                => /\ vehicle.hasStop
                   /\ vehicle.StopID = BySequence(server.gtfs.tripStops[tripID])[vp.CurrentStopSequence].StopID]_vars

\* the current stop sequence of the entity names no stop time of its trip
\* in the snapshot: there is none, it is 0 or past the last one, or the trip
\* is unknown
NamesNoStopTime(gtfs, vp) ==
    \/ ~vp.hasTrip \/ ~vp.hasCurrentStopSequence
    \/ GetTripId(vp) \notin DOMAIN gtfs.tripStops
    \/ vp.CurrentStopSequence = 0
    \/ vp.CurrentStopSequence > Len(gtfs.tripStops[GetTripId(vp)])

\* C30: a Vehicle built by updateVehiclePositions has the feed's stop ID as
\* its stop whenever that is not empty, whatever the current stop sequence;
\* without one, a sequence that is 0 or greater than the number of stop
\* times of the trip, or a trip the snapshot does not know, gives a vehicle
\* without stop relationship; the poll goes on and installs what it built.
StopFromFeedOrNone ==
    /\ [][VehicleBuilt =>
            LET vp == poll.feed[poll.i]
                vehicle == poll'.vehicles[GetId(vp)]
            IN  /\ vp.StopId # "" => vehicle.hasStop /\ vehicle.StopID = vp.StopId
                /\ (vp.StopId = "" /\ NamesNoStopTime(server.gtfs, vp)) => ~vehicle.hasStop /\ vehicle.StopID = ""
                /\ ~poll'.vehiclesErr]_vars
    /\ [][(poll.pc = "vehicles" /\ poll'.pc # "vehicles") => server'.realtime.vehicles = poll.vehicles]_vars

\* a poll that did not fail has built a vehicle without stop relationship
\* from an entity whose current stop sequence is past the last stop time of
\* its known trip
BuiltWithoutStop ==
    /\ poll.pc = "vehicles" /\ poll.i = 2 /\ ~poll.vehiclesErr
    /\ LET vp == poll.feed[1]
       IN  /\ vp.StopId = "" /\ vp.hasCurrentStopSequence
           /\ GetTripId(vp) \in DOMAIN server.gtfs.tripStops
           /\ vp.CurrentStopSequence > Len(server.gtfs.tripStops[GetTripId(vp)])
           /\ GetId(vp) \in DOMAIN poll.vehicles
           /\ ~poll.vehicles[GetId(vp)].hasStop

\* =========================== Server.loadGTFS, statement by statement
\* the archives the static feed serves: those of ServerArchives and those
\* with stop times
ParseArchives == ServerArchives \cup UnorderedArchives

\* a plausible slip: the tables are parsed into the GTFSData in use
GTFSWhileParsingInPlace(gtfs, newGTFS) == newGTFS

\* "newGTFS := &GTFSData{...}": s.gtfs while parseGTFS fills newGTFS
GTFSWhileParsing(gtfs, newGTFS) == gtfs

\* a plausible slip: the download is saved although it could not be parsed
CopyAfterFailedParseSaved(local, file) == file

\* "if err := s.parseGTFS(tmpFile.Name()); err != nil { return ... }":
\* cota.gtfs.zip after parseGTFS has failed on the download
CopyAfterFailedParse(local, file) == local

\* the record of the call after parseGTFS has returned an error: the
\* fallback if the file was the download, the return of loadGTFS otherwise
ParseFailed == IF parse.fresh THEN [parse EXCEPT !.pc = "fallback"] ELSE [parse EXCEPT !.pc = "returned", !.result = "error"]

\* downloadAndParseGTFS up to the call of parseGTFS: the download fails, or
\* the temporary file holds what was served
LoadGTFSBegin ==
    /\ parse.pc \in {"idle", "returned"} /\ parse.n < MaxLoads
    /\ \/ \E failure \in ServerDownloadFailures :
             parse' = [ParseIdle EXCEPT !.pc = "fallback", !.n = parse.n + 1, !.before = server.gtfs, !.copyBefore = localCopy]
       \/ \E file \in {UnreadableFile} \cup {ArchiveFile(a) : a \in ParseArchives} :
             parse' = [ParseIdle EXCEPT !.pc = "open", !.n = parse.n + 1, !.file = file, !.fresh = TRUE,
                                        !.before = server.gtfs, !.copyBefore = localCopy]
    /\ UNCHANGED <<server, localCopy, main, poll, clock, store, callVars, lockVars, loader, updaterVars, taskVars>>

\* "if _, err := os.Stat("cota.gtfs.zip"); err == nil { return s.parseGTFS("cota.gtfs.zip") } else { return fmt.Errorf(...) }"
LoadGTFSFallback ==
    /\ parse.pc = "fallback"
    /\ parse' = IF localCopy.state = "absent"
                THEN [parse EXCEPT !.pc = "returned", !.result = "error", !.fallbacks = @ + 1]
                ELSE [parse EXCEPT !.pc = "open", !.file = localCopy, !.fresh = FALSE, !.next = 1, !.newGTFS = NewGTFSData,
                                   !.fallbacks = @ + 1]
    /\ UNCHANGED <<server, localCopy, main, poll, clock, store, callVars, lockVars, loader, updaterVars, taskVars>>

\* zip.OpenReader(filename) and "newGTFS := &GTFSData{...}"
ParseOpen ==
    /\ parse.pc = "open"
    /\ IF parse.file.state # "archive"
       THEN /\ parse' = ParseFailed
            /\ localCopy' = IF parse.fresh THEN CopyAfterFailedParse(localCopy, parse.file) ELSE localCopy
       ELSE /\ parse' = [parse EXCEPT !.pc = "files", !.next = 1, !.newGTFS = NewGTFSData]
            /\ UNCHANGED localCopy
    /\ UNCHANGED <<server, main, poll, clock, store, callVars, lockVars, loader, updaterVars, taskVars>>

\* one turn of "for _, file := range reader.File"
ParseFile ==
    /\ parse.pc = "files" /\ parse.next <= Len(parse.file.files)
    /\ LET file == parse.file.files[parse.next]
       IN  IF file.corrupt
           THEN /\ parse' = ParseFailed
                /\ localCopy' = IF parse.fresh THEN CopyAfterFailedParse(localCopy, parse.file) ELSE localCopy
                /\ UNCHANGED server
           ELSE /\ parse' = [parse EXCEPT !.next = @ + 1, !.newGTFS = ParseRows(@, file.name, file.rows, Len(file.rows))]
                /\ server' = [server EXCEPT !.gtfs = GTFSWhileParsing(@, parse'.newGTFS)]
                /\ UNCHANGED localCopy
    /\ UNCHANGED <<main, poll, clock, store, callVars, lockVars, loader, updaterVars, taskVars>>

\* s.buildRouteStopMappings(newGTFS)
ParseBuildRouteStopMappings ==
    /\ parse.pc = "files" /\ parse.next > Len(parse.file.files)
    /\ \E order \in RouteStopOrders(parse.newGTFS) :
          parse' = [parse EXCEPT !.pc = "destinations", !.newGTFS = buildRouteStopMappings(@, order)]
    /\ UNCHANGED <<server, localCopy, main, poll, clock, store, callVars, lockVars, loader, updaterVars, taskVars>>

\* "for _, route := range newGTFS.routes { ... }"
ParseSetDirectionDestinations ==
    /\ parse.pc = "destinations"
    /\ IF ParsePanics(parse.newGTFS)
       THEN parse' = [parse EXCEPT !.pc = "panicked", !.result = "panic"]
       ELSE \E pick \in DestinationPicks(parse.newGTFS) :
               parse' = [parse EXCEPT !.pc = "swap", !.newGTFS = setDirectionDestinations(@, pick)]
    /\ UNCHANGED <<server, localCopy, main, poll, clock, store, callVars, lockVars, loader, updaterVars, taskVars>>

\* "s.gtfs = newGTFS; return nil"
ParseSwap ==
    /\ parse.pc = "swap"
    /\ server' = [server EXCEPT !.gtfs = parse.newGTFS]
    /\ parse' = IF parse.fresh THEN [parse EXCEPT !.pc = "save"] ELSE [parse EXCEPT !.pc = "returned", !.result = "ok"]
    /\ UNCHANGED <<localCopy, main, poll, clock, store, callVars, lockVars, loader, updaterVars, taskVars>>

\* saveLocalCopy: os.Open or os.Create fails and the file is as before, or
\* io.Copy fails and it is cut short, or it holds the download
SaveLocalCopy ==
    /\ parse.pc = "save"
    /\ localCopy' \in {localCopy, UnreadableFile, parse.file}
    /\ parse' = [parse EXCEPT !.pc = "returned", !.result = "ok"]
    /\ UNCHANGED <<server, main, poll, clock, store, callVars, lockVars, loader, updaterVars, taskVars>>

ParseNext ==
    \/ LoadGTFSBegin
    \/ LoadGTFSFallback
    \/ ParseOpen
    \/ ParseFile
    \/ ParseBuildRouteStopMappings
    \/ ParseSetDirectionDestinations
    \/ ParseSwap
    \/ SaveLocalCopy

SpecParse == Init /\ [][ParseNext]_vars

\* C18: s.gtfs is assigned only by the swap at the end of parseGTFS, after
\* every table of the archive has been parsed into the new GTFSData and the
\* route-stop mappings and direction destinations have been computed on it;
\* when parseGTFS fails, s.gtfs is the snapshot it was before; a snapshot is
\* never modified once it is installed.
GTFSSwappedInWhole ==
    [][/\ server'.gtfs # server.gtfs =>
            /\ parse.pc = "swap" /\ parse.next > Len(parse.file.files)
            /\ \E outcome \in parseGTFS(parse.file) : outcome.result = "ok" /\ outcome.gtfs = server'.gtfs
       /\ (parse.pc \in {"open", "files"} /\ parse'.pc \in {"fallback", "returned"}) => server'.gtfs = parse.before]_vars

\* parseGTFS has failed on trips.txt of a download after routes.txt and
\* stops.txt went into newGTFS, while s.gtfs holds the snapshot of an
\* earlier load, with a trip
ParseFailedHalfway ==
    /\ parse.pc = "fallback" /\ parse.fresh /\ parse.n > 1
    /\ parse.newGTFS.routes # EmptyMap /\ parse.newGTFS.trips = EmptyMap
    /\ server.gtfs.trips # EmptyMap /\ server.gtfs = parse.before

\* the step in which loadGTFS returns
LoadGTFSReturns == parse.pc # "returned" /\ parse'.pc = "returned"

\* C19: when the download or the parsing of the download fails, loadGTFS
\* falls back exactly once: if cota.gtfs.zip exists it is parsed and the
\* outcome of that is the outcome of loadGTFS; if it does not exist,
\* loadGTFS returns an error and s.gtfs is unchanged.  cota.gtfs.zip is
\* written only after a download has been parsed successfully.
LoadGTFSFallsBackOnce ==
    [][/\ LoadGTFSReturns =>
            /\ parse'.fallbacks <= 1
            /\ parse'.fallbacks = 0 => parse'.result = "ok" /\ parse.fresh
            /\ parse'.fallbacks = 1 =>
                  IF parse.copyBefore.state = "absent"
                  THEN parse'.result = "error" /\ server'.gtfs = parse.before
                  ELSE \E outcome \in parseGTFS(parse.copyBefore) :
                          /\ outcome.result = parse'.result
                          /\ server'.gtfs = IF outcome.result = "ok" THEN outcome.gtfs ELSE parse.before
       /\ localCopy' # localCopy =>
            /\ parse.pc = "save" /\ parse.fresh
            /\ \E outcome \in parseGTFS(parse.file) : outcome.result = "ok" /\ outcome.gtfs = server.gtfs]_vars

\* loadGTFS has returned nil after the download failed or could not be
\* parsed and the local copy, saved by the load before, could
FellBackToLocalCopy ==
    /\ parse.pc = "returned" /\ parse.result = "ok" /\ parse.fallbacks = 1 /\ ~parse.fresh
    /\ parse.file = localCopy /\ parse.copyBefore = localCopy
    /\ server.gtfs.routes # EmptyMap

\* ================================================= cleanCOTADestination
\* the headsigns of up to MaxLen characters
Characters == {" ", "T", "O", "A"}

Headsigns == UNION {[1..n -> Characters] : n \in 0..MaxLen}

CleanInit == Constructed /\ published \in Headsigns

\* a call of cleanCOTADestination with the headsign `published`
CleanDestination ==
    /\ last = NoCall
    /\ last' = [op |-> "cleanCOTADestination", destination |-> published, cleaned |-> cleanCOTADestination(published)]
    /\ UNCHANGED <<store, nops, published, outsideStore>>

CleanNext == CleanDestination

SpecClean == CleanInit /\ [][CleanNext]_vars

Cleaned == last.op = "cleanCOTADestination"

\* the text after the first token of a headsign that has one
AfterToken(headsign) == SubSeq(headsign, ToIndex(headsign) + 4, Len(headsign))

\* a text without the spaces at its end
WithoutTrailingSpaces(text) ==
    LET inked == {i \in 1..Len(text) : text[i] # " "}
    IN  IF inked = {} THEN <<>> ELSE SubSeq(text, 1, CHOOSE i \in inked : \A j \in inked : j <= i)

\* C14 as stated: cleanCOTADestination maps every headsign that contains
\* the token " TO " to "TO " followed by the text after the first token, and
\* every headsign without the token to itself.
CleanedIsToAndRest ==
    Cleaned => last.cleaned = IF ToIndex(last.destination) # 0 THEN <<"T", "O", " ">> \o AfterToken(last.destination)
                              ELSE last.destination

\* C14 amended: cleanCOTADestination maps every headsign that contains the
\* token " TO " to "TO " followed by the text after the first token without
\* its trailing spaces, or to "TO" alone when only spaces follow the token;
\* it maps every headsign without the token to itself.
CleanedIsToAndTrimmedRest ==
    Cleaned => last.cleaned =
        IF ToIndex(last.destination) = 0 THEN last.destination
        ELSE IF WithoutTrailingSpaces(AfterToken(last.destination)) = <<>> THEN <<"T", "O">>
        ELSE <<"T", "O", " ">> \o WithoutTrailingSpaces(AfterToken(last.destination))

\* a headsign with text and then a space after its first token has been
\* cleaned: the result is shorter than "TO " and the text after the token
CleanedTrailingSpace ==
    /\ Cleaned /\ ToIndex(last.destination) # 0
    /\ WithoutTrailingSpaces(AfterToken(last.destination)) # <<>>
    /\ WithoutTrailingSpaces(AfterToken(last.destination)) # AfterToken(last.destination)
    /\ last.cleaned # <<"T", "O", " ">> \o AfterToken(last.destination)

\* ============================== the realtime updaters (internal/updater)
\* ------------------------------------------- VehicleUpdater.processFeed
\* "if entity.Vehicle == nil", "if vehiclePosition.Vehicle == nil || vehiclePosition.Vehicle.Id == nil": continue
SkipsVehicle(vp) == ~vp.hasVehicle \/ ~vp.hasDescriptor \/ ~vp.hasId

\* the models.Vehicle built for one entity; the store is read only to fill
\* in a missing route ID
VehicleOf(s, vp) ==
    LET tripID  == IF vp.hasTrip THEN vp.TripId ELSE ""
        routeID == IF vp.hasTrip THEN vp.RouteId ELSE ""
        trip    == GetTrip(s, tripID)
    IN  Vehicle(vp.Id, tripID,
                IF routeID = "" /\ tripID # "" /\ trip # Nil THEN trip.RouteID ELSE routeID,
                IF vp.hasTrip THEN vp.DirectionId ELSE 0)

\* ---------------------------------------------- TripUpdater.processFeed
\* "if entity.TripUpdate == nil", "if tripUpdate.Trip == nil || tripUpdate.Trip.TripId == nil": continue
SkipsTripUpdate(tu) == ~tu.hasTripUpdate \/ ~tu.hasTrip \/ ~tu.hasTripId

\* the models.Prediction built for one stop time update, with the arrival
\* and departure times the update carries (the zero time: has... is FALSE)
PredictionOf(s, tu, stu) ==
    LET trip == GetTrip(s, tu.TripId)
        prediction == Prediction(PredictionID(tu.TripId, stu.StopId), tu.TripId, stu.StopId,
                                 IF tu.RouteId = "" /\ trip # Nil THEN trip.RouteID ELSE tu.RouteId,
                                 tu.DirectionId)
    IN  [ID |-> prediction.ID, TripID |-> prediction.TripID, StopID |-> prediction.StopID, RouteID |-> prediction.RouteID,
         DirectionID |-> prediction.DirectionID,
         hasArrivalTime |-> stu.hasArrival, ArrivalTime |-> IF stu.hasArrival THEN stu.Arrival ELSE 0,
         hasDepartureTime |-> stu.hasDeparture, DepartureTime |-> IF stu.hasDeparture THEN stu.Departure ELSE 0]

\* the predictions map after the stop time updates 1..n of a trip update
RECURSIVE PredictionsOf(_, _, _, _)
PredictionsOf(predictions, s, tu, n) ==
    IF n = 0 THEN predictions
    ELSE LET sofar == PredictionsOf(predictions, s, tu, n - 1)
             stu   == tu.StopTimeUpdate[n]
         IN  IF ~stu.hasStopId THEN sofar ELSE Put(sofar, PredictionID(tu.TripId, stu.StopId), PredictionOf(s, tu, stu))

\* what makes Update return an error
UpdateFailures == {"http.Get failed", "status not 200", "io.ReadAll failed", "proto.Unmarshal failed"}

\* a plausible slip: the freshness marker is set although the fetch failed
StoreStampedAfterFailedFetch(s, now) == SetLastRealtimeUpdate(s, now)

\* every error return of Update comes before its first call of the store
StoreAfterFailedFetch(s, now) == s

\* ------------------------------ api.vehicleToResource, predictionToResource
\* a plausible slip: the stored direction is served as it is
vehicleToResourceUncorrected(vehicle, s) ==
    [ID |-> vehicle.ID, direction_id |-> vehicle.DirectionID, trip |-> vehicle.TripID, route |-> vehicle.RouteID]

\* "Use the correct direction_id from the associated trip instead of the realtime value"
vehicleToResource(vehicle, s) ==
    [ID |-> vehicle.ID,
     direction_id |-> IF vehicle.TripID # "" /\ GetTrip(s, vehicle.TripID) # Nil
                      THEN GetTrip(s, vehicle.TripID).DirectionID ELSE vehicle.DirectionID,
     trip |-> vehicle.TripID, route |-> vehicle.RouteID]

predictionToResource(prediction, s) ==
    [ID |-> prediction.ID,
     direction_id |-> IF prediction.TripID # "" /\ GetTrip(s, prediction.TripID) # Nil
                      THEN GetTrip(s, prediction.TripID).DirectionID ELSE prediction.DirectionID,
     trip |-> prediction.TripID, route |-> prediction.RouteID]

\* ------------------------------------------------------------ the calls
\* the archives the static feed serves while the updaters run: the trip t1
\* in either direction
PollArchives == {a \in ServerArchives : ~a[3].corrupt /\ Len(a[3].rows) = 1}

\* Update of either updater, up to the point where it has the feed or
\* returns an error.  One goroutine makes the calls, one after the other.
UpdateBegin(vehicleFeeds, tripUpdateFeeds) ==
    /\ updater.pc \in {"idle", "returned"} /\ updater.n < MaxCycles
    /\ clock' = clock + 1
    /\ \/ \E kind \in {"vehicles", "predictions"}, failure \in UpdateFailures :
             /\ updater' = [UpdaterIdle EXCEPT !.pc = "returned", !.n = updater.n + 1, !.kind = kind, !.result = failure]
             /\ store' = StoreAfterFailedFetch(store, clock')
       \/ \E feed \in vehicleFeeds :
             /\ updater' = [UpdaterIdle EXCEPT !.pc = "process", !.n = updater.n + 1, !.kind = "vehicles", !.feed = feed]
             /\ UNCHANGED store
       \/ \E feed \in tripUpdateFeeds :
             /\ updater' = [UpdaterIdle EXCEPT !.pc = "process", !.n = updater.n + 1, !.kind = "predictions", !.feed = feed]
             /\ UNCHANGED store
    /\ UNCHANGED <<loader, request, published, outsideUpdater>>

\* one turn of "for _, entity := range feed.Entity" in VehicleUpdater.processFeed
VehicleUpdaterProcess ==
    /\ updater.pc = "process" /\ updater.kind = "vehicles" /\ updater.i <= Len(updater.feed)
    /\ LET vp == updater.feed[updater.i]
       IN  updater' = [updater EXCEPT !.i = @ + 1, !.built = IF SkipsVehicle(vp) THEN @ ELSE Put(@, vp.Id, VehicleOf(store, vp))]
    /\ UNCHANGED <<store, clock, loader, request, published, outsideUpdater>>

\* "u.store.UpdateVehicles(vehicles); return nil"
VehicleUpdaterInstall ==
    /\ updater.pc = "process" /\ updater.kind = "vehicles" /\ updater.i > Len(updater.feed)
    /\ \E order \in Orders(DOMAIN updater.built) : store' = UpdateVehicles(store, updater.built, order)
    /\ updater' = [updater EXCEPT !.pc = "returned", !.result = "ok"]
    /\ UNCHANGED <<clock, loader, request, published, outsideUpdater>>

\* one turn of "for _, entity := range feed.Entity" in TripUpdater.processFeed
TripUpdaterProcess ==
    /\ updater.pc = "process" /\ updater.kind = "predictions" /\ updater.i <= Len(updater.feed)
    /\ LET tu == updater.feed[updater.i]
       IN  updater' = [updater EXCEPT !.i = @ + 1,
                          !.built = IF SkipsTripUpdate(tu) THEN @ ELSE PredictionsOf(@, store, tu, Len(tu.StopTimeUpdate))]
    /\ UNCHANGED <<store, clock, loader, request, published, outsideUpdater>>

\* "u.store.UpdatePredictions(predictions)"
TripUpdaterInstall ==
    /\ updater.pc = "process" /\ updater.kind = "predictions" /\ updater.i > Len(updater.feed)
    /\ \E order \in Orders(DOMAIN updater.built) : store' = UpdatePredictions(store, updater.built, order)
    /\ updater' = [updater EXCEPT !.pc = "stamp"]
    /\ UNCHANGED <<clock, loader, request, published, outsideUpdater>>

\* "u.store.SetLastRealtimeUpdate(time.Now()); return nil"
TripUpdaterStamp ==
    /\ updater.pc = "stamp"
    /\ store' = SetLastRealtimeUpdate(store, clock)
    /\ updater' = [updater EXCEPT !.pc = "returned", !.result = "ok"]
    /\ UNCHANGED <<clock, loader, request, published, outsideUpdater>>

\* handleVehicle, handlePrediction: the model is fetched from the store ...
RequestGet ==
    /\ request.pc \in {"idle", "done"}
    /\ \/ \E id \in DOMAIN store.vehicles : request' = [RequestIdle EXCEPT !.pc = "resource", !.kind = "vehicle", !.model = GetVehicle(store, id)]
       \/ \E id \in DOMAIN store.predictions : request' = [RequestIdle EXCEPT !.pc = "resource", !.kind = "prediction", !.model = GetPrediction(store, id)]
    /\ UNCHANGED <<store, clock, loader, updater, published, outsideUpdater>>

\* ... and then turned into the resource of the response
RequestToResource ==
    /\ request.pc = "resource"
    /\ request' = [request EXCEPT !.pc = "done",
                      !.resource = IF request.kind = "vehicle" THEN vehicleToResource(request.model, store)
                                   ELSE predictionToResource(request.model, store)]
    /\ UNCHANGED <<store, clock, loader, updater, published, outsideUpdater>>

PollNext ==
    \/ LoadBegin(PollArchives)
    \/ LoadClear
    \/ LoadFile
    \/ LoadBuildStopsByRoute
    \/ LoadBuildRouteDirections
    \/ LoadFinish
    \/ UpdateBegin(VehicleFeeds, TripUpdateFeeds(clock + 1))
    \/ VehicleUpdaterProcess
    \/ VehicleUpdaterInstall
    \/ TripUpdaterProcess
    \/ TripUpdaterInstall
    \/ TripUpdaterStamp
    \/ RequestGet
    \/ RequestToResource

SpecPoll == Init /\ [][PollNext]_vars

\* the step is a call of Update that returns an error
UpdateFails == updater'.n = updater.n + 1 /\ updater'.pc = "returned" /\ updater'.result \in UpdateFailures

\* C6: a call of VehicleUpdater.Update or TripUpdater.Update that returns an
\* error changes no field of the store: vehicles, predictions, their
\* indexes and lastRealtimeUpdate are as before the call.
FailedUpdateLeavesStore == [][UpdateFails => store' = store]_vars

\* an Update has returned an error after an earlier one installed
\* predictions and set lastRealtimeUpdate
UpdateFailedAfterInstall ==
    /\ updater.pc = "returned" /\ updater.result \in UpdateFailures
    /\ store.predictions # EmptyMap /\ store.predictionsByTrip # EmptyMap /\ store.lastRealtimeUpdate # 0

\* the step installs the map an updater has built
UpdaterInstalls == updater.pc = "process" /\ updater'.pc \in {"returned", "stamp"}

\* the models in the map m whose TripID resolves through GetTrip carry the
\* trip's DirectionID
TripDirections(s, m) ==
    \A id \in DOMAIN m : GetTrip(s, m[id].TripID) # Nil => m[id].DirectionID = GetTrip(s, m[id].TripID).DirectionID

TripUpdaterInstalls == updater.pc = "process" /\ updater.kind = "predictions" /\ updater'.pc = "stamp"

\* C12: TripUpdater.Update of the package-based server never installs a
\* prediction whose comparison time (the later of arrival and departure) is
\* older than the time of the call minus one poll interval.
UpdaterInstallsOnlyFreshPredictions ==
    [][TripUpdaterInstalls =>
        \A id \in DOMAIN store'.predictions :
            LET p == store'.predictions[id]
            IN  (p.hasArrivalTime \/ p.hasDepartureTime) => InstalledTime(p) >= clock - realtimeUpdateInterval]_vars

\* the payload of the entity has a descriptor with an ID, and a position
CarriesIdentityAndPosition(vp) == vp.hasVehicle /\ vp.hasDescriptor /\ vp.hasId /\ vp.hasPosition

\* C20: every vehicle that a vehicle poll installs, in VehicleUpdater.Update
\* of the package-based server and in updateVehiclePositions of the
\* single-file server, comes from an entity of the feed that carries a
\* vehicle descriptor with an ID and a position; an entity that lacks either
\* yields no vehicle.
InstalledVehiclesHaveIdentityAndPosition ==
    [][/\ (updater.pc = "process" /\ updater.kind = "vehicles" /\ updater'.pc = "returned") =>
            \A id \in DOMAIN store'.vehicles :
                \E i \in DOMAIN updater.feed : CarriesIdentityAndPosition(updater.feed[i]) /\ updater.feed[i].Id = id
       /\ (poll.pc = "vehicles" /\ poll'.pc = "tripsFetch") =>
            \A id \in DOMAIN server'.realtime.vehicles :
                \E i \in DOMAIN poll.feed : CarriesIdentityAndPosition(poll.feed[i]) /\ GetId(poll.feed[i]) = id]_vars

\* the step builds a model from a feed entity
VehicleModelBuilt == updater.pc = "process" /\ updater.kind = "vehicles" /\ updater'.i = updater.i + 1 /\ ~SkipsVehicle(updater.feed[updater.i])

PredictionModelBuilt == updater.pc = "process" /\ updater.kind = "predictions" /\ updater'.i = updater.i + 1 /\ ~SkipsTripUpdate(updater.feed[updater.i])

FrameNext ==
    \/ LoadBegin({published})
    \/ LoadClear
    \/ LoadFile
    \/ LoadBuildStopsByRoute
    \/ LoadBuildRouteDirections
    \/ LoadFinish
    \/ CallUpdateVehicles(LockVehicleMaps)
    \/ CallUpdatePredictions(LockPredictionMaps)
    \/ CallClearRealtimeData

FrameInit == Constructed /\ published \in PollArchives

SpecFrame == FrameInit /\ [][FrameNext]_vars

VehicleFields == {"vehicles", "vehiclesByRoute", "vehiclesByTrip"}

PredictionFields == {"predictions", "predictionsByStop", "predictionsByRoute", "predictionsByTrip"}

Timestamps == {"lastStaticUpdate", "lastRealtimeUpdate"}

\* the step is the store call `op`
Called(op) == nops' = nops + 1 /\ last'.op = op

\* the step is l.store.Clear()
ClearCalled == loader.pc = "clear" /\ loader'.pc = "files"

Keeps(fields) == \A f \in fields : store'[f] = store[f]

TripsColumns == {<<"route_id", "service_id", "trip_id", "trip_headsign", "direction_id", "shape_id">>,
                 <<"trip_id", "route_id", "service_id", "direction_id", "trip_headsign", "shape_id">>}

OptionalColumns == {"trip_headsign", "shape_id"}

\* a header row that lacks some of the optional columns
HeaderRows == {SelectSeq(columns, LAMBDA c : c \notin absent) : columns \in TripsColumns, absent \in SUBSET OptionalColumns}

CellValues(column) ==
    CASE column = "route_id" -> {"r1", "r2"}
      [] column = "service_id" -> {"weekday"}
      [] column = "trip_id" -> {"t1"}
      [] column = "trip_headsign" -> {"", "B"}
      [] column = "direction_id" -> {"0", "1"}
      [] column = "shape_id" -> {"", "sh1"}

TripsRows ==
    LET values == UNION {CellValues(c) : c \in UNION {Range(columns) : columns \in TripsColumns}}
    IN  UNION {{[headers |-> h, record |-> r] :
                    r \in {x \in [1..Len(h) -> values] : \A i \in 1..Len(h) : x[i] \in CellValues(h[i])}} :
               h \in HeaderRows}

\* strconv.Atoi on the texts above; the callers drop its error and keep 0
Atoi(text) == CASE text = "0" -> 0 [] text = "1" -> 1 [] OTHER -> 0

\* Server.parseCSV: "headerMap[header] = i", positions counted from 0
HeaderMap(headers) == [c \in Range(headers) |-> (CHOOSE i \in 1..Len(headers) : headers[i] = c) - 1]

\* "record[headers[name]]": a name that is no key of the map reads as 0
Column(record, headers, name) == record[Get(headers, name, 0) + 1]

\* "if idx, exists := headers[name]; exists && idx < len(record) { ... = record[idx] }"
ColumnIfExists(record, headers, name) ==
    IF name \in DOMAIN headers /\ headers[name] < Len(record) THEN record[headers[name] + 1] ELSE ""

\* the row handler of Server.parseTrips
parseTrips(record, headers) ==
    [ID |-> Column(record, headers, "trip_id"),
     RouteID |-> Column(record, headers, "route_id"),
     ServiceID |-> Column(record, headers, "service_id"),
     Headsign |-> Column(record, headers, "trip_headsign"),
     Direction |-> Atoi(Column(record, headers, "direction_id")),
     ShapeID |-> ColumnIfExists(record, headers, "shape_id")]

\* gtfs.readCSV: "fields[header] = record[i]" for every header
readCSV(headers, record) == [c \in Range(headers) |-> record[CHOOSE i \in 1..Len(headers) : headers[i] = c]]

getString(record, field) == Get(record, field, "")

getInt(record, field) == IF field \in DOMAIN record /\ record[field] # "" THEN Atoi(record[field]) ELSE 0

\* the loop body of Loader.processTrips
processTrips(record) ==
    [ID |-> getString(record, "trip_id"),
     RouteID |-> getString(record, "route_id"),
     ServiceID |-> getString(record, "service_id"),
     Headsign |-> getString(record, "trip_headsign"),
     Direction |-> getInt(record, "direction_id"),
     ShapeID |-> getString(record, "shape_id")]

ColumnsInit == Constructed /\ published \in TripsRows

\* Server.parseTrips on the row `published`
ParseTripsRow ==
    /\ last' = [op |-> "parseTrips", trip |-> parseTrips(published.record, HeaderMap(published.headers))]
    /\ UNCHANGED <<store, nops, published, outsideStore>>

\* Loader.processTrips on the row `published`
ProcessTripsRow ==
    /\ last' = [op |-> "processTrips", trip |-> processTrips(readCSV(published.headers, published.record))]
    /\ UNCHANGED <<store, nops, published, outsideStore>>

ColumnsNext ==
    \/ ParseTripsRow
    \/ ProcessTripsRow

SpecColumns == ColumnsInit /\ [][ColumnsNext]_vars

\* the field of a trip that an optional column fills
FieldOf(trip, column) == IF column = "trip_headsign" THEN trip.Headsign ELSE trip.ShapeID

\* C28: a trip parsed from a table whose header row lacks trip_headsign or
\* shape_id has the zero value "" in that field, with either reader.
AbsentColumnReadsAsZero ==
    last.op \in {"parseTrips", "processTrips"} =>
        \A column \in OptionalColumns \ Range(published.headers) : FieldOf(last.trip, column) = ""

\* ====================== updateTripUpdates: the time a prediction is judged by
\* trip-update feeds of one entity for trip t1 with one stop-time update for
\* stop s1, whose arrival and departure are each absent, two intervals or one
\* interval before the time of the fetch, or at it
FilterTimes(now) == {now - 2 * realtimeUpdateInterval, now - realtimeUpdateInterval, now}

FilterFeeds(now) ==
    {<<TripUpdateEntity(TRUE, TRUE, TRUE, "t1", "r1", 0, <<StopTimeUpdate(TRUE, "s1", hasArrival, arrival, hasDeparture, departure)>>)>> :
        hasArrival \in BOOLEAN, arrival \in FilterTimes(now), hasDeparture \in BOOLEAN, departure \in FilterTimes(now)}

FilterNext ==
    \/ ServerLoadGTFS({published})
    \/ UpdateRealtimeDataBegin({<<>>})
    \/ VehiclePositionsSwap
    \/ TripUpdatesFetch(FilterFeeds(clock))
    \/ TripUpdatesBuild
    \/ TimePasses
    \/ TripUpdatesSwap
    \/ UpdateRealtimeDataEnd

FilterInit == Constructed /\ published \in PollArchives

SpecFilter == FilterInit /\ [][FilterNext]_vars

\* the stop-time update that the next turn of the loop handles
NextStopTimeUpdate == poll.feed[poll.i].StopTimeUpdate[poll.j]

\* the step is the turn of the loop for a stop-time update with a stop ID
StopTimeUpdateHandled ==
    /\ poll.pc = "trips" /\ poll.i <= Len(poll.feed)
    /\ ~ServerSkipsTripUpdate(poll.feed[poll.i]) /\ poll.j <= Len(poll.feed[poll.i].StopTimeUpdate)
    /\ NextStopTimeUpdate.hasStopId
    /\ poll'.j = poll.j + 1

\* the time the claim names: the arrival or the departure when only one is
\* there, the later one when both are
ComparisonTime(stu) ==
    CASE stu.hasArrival /\ ~stu.hasDeparture -> stu.Arrival
      [] ~stu.hasArrival /\ stu.hasDeparture -> stu.Departure
      [] stu.hasArrival /\ stu.hasDeparture -> IF stu.Arrival >= stu.Departure THEN stu.Arrival ELSE stu.Departure

\* C29: updateTripUpdates drops a stop-time update exactly when it has a
\* time and its comparison time (the arrival or the departure when only one
\* is present, the later of the two when both are) is more than one poll
\* interval before now; one with neither time is kept.
DroppedByComparisonTime ==
    [][StopTimeUpdateHandled =>
          LET stu == NextStopTimeUpdate
          IN  (poll'.predictions = poll.predictions)
                  <=> ((stu.hasArrival \/ stu.hasDeparture) /\ ComparisonTime(stu) < clock - realtimeUpdateInterval)]_vars

\* a prediction was kept although its arrival alone is too old
KeptForLaterDeparture ==
    /\ poll.pc = "trips"
    /\ \E stop \in DOMAIN poll.predictions : \E i \in DOMAIN poll.predictions[stop] :
          LET p == poll.predictions[stop][i]
          IN  /\ p.hasArrivalTime /\ p.hasDepartureTime
              /\ p.ArrivalTime < clock - realtimeUpdateInterval
              /\ p.DepartureTime >= clock - realtimeUpdateInterval

\* ============================== api: the vehicles collection endpoint
\* filter.Options.Filters of a request: any of filter[id], filter[route] and
\* filter[trip], each with one value
FilterValues == [id |-> VehicleIDs, route |-> StoreRouteIDs, trip |-> StoreTripIDs]

FilterOptions ==
    UNION {{options \in [names -> UNION {FilterValues[n] : n \in names}] : \A n \in names : options[n] \in FilterValues[n]} :
              names \in SUBSET {"id", "route", "trip"}}

HasFilter(options, name) == name \in DOMAIN options

\* the slice of values; one value per filter here
GetFilter(options, name) == <<options[name]>>

\* filter.Filter(items, fn) with fn "the ID is one of idFilter"
FilterByID(items, idFilter) == SelectSeq(items, LAMBDA item : item.ID \in Range(idFilter))

RECURSIVE VehiclesOfRoutes(_, _, _)
VehiclesOfRoutes(s, routeFilter, n) ==
    IF n = 0 THEN <<>> ELSE VehiclesOfRoutes(s, routeFilter, n - 1) \o GetVehiclesByRoute(s, routeFilter[n])

RECURSIVE VehiclesOfTrips(_, _, _)
VehiclesOfTrips(s, tripFilter, n) ==
    IF n = 0 THEN <<>>
    ELSE VehiclesOfTrips(s, tripFilter, n - 1)
            \o (IF GetVehicleByTrip(s, tripFilter[n]) # Nil THEN <<GetVehicleByTrip(s, tripFilter[n])>> ELSE <<>>)

\* handleVehicles up to the conversion to resources; order is the order in
\* which GetAllVehicles walks the map
handleVehicles(s, options, order) ==
    LET all     == [i \in DOMAIN order |-> s.vehicles[order[i]]]
        byID    == IF HasFilter(options, "id") THEN FilterByID(all, GetFilter(options, "id")) ELSE all
        byRoute == IF HasFilter(options, "route")
                   THEN VehiclesOfRoutes(s, GetFilter(options, "route"), Len(GetFilter(options, "route"))) ELSE byID
    IN  IF HasFilter(options, "trip")
        THEN VehiclesOfTrips(s, GetFilter(options, "trip"), Len(GetFilter(options, "trip"))) ELSE byRoute

\* GET /vehicles
HandleVehiclesRequest ==
    /\ \E options \in FilterOptions : \E order \in Orders(DOMAIN store.vehicles) :
          request' = [pc |-> "done", kind |-> "vehicles", model |-> <<>>, options |-> options,
                      resource |-> handleVehicles(store, options, order)]
    /\ UNCHANGED <<store, clock, loader, updater, published, outsideUpdater>>

CollectionNext ==
    \/ CallUpdateVehicles(StoreVehicleMaps)
    \/ HandleVehiclesRequest

SpecCollection == Init /\ [][CollectionNext]_vars

\* C39: every vehicle that handleVehicles returns matches each filter of
\* the request: filter[id] together with filter[route] or filter[trip]
\* gives vehicles that have one of the IDs and are on the route (or trip).
FiltersAreConjunctive ==
    request.kind = "vehicles" =>
        \A i \in DOMAIN request.resource :
            LET vehicle == request.resource[i]
            IN  /\ HasFilter(request.options, "id") => vehicle.ID \in Range(GetFilter(request.options, "id"))
                /\ HasFilter(request.options, "route") => vehicle.RouteID \in Range(GetFilter(request.options, "route"))
                /\ HasFilter(request.options, "trip") => vehicle.TripID \in Range(GetFilter(request.options, "trip"))

\* ===================== trips with a direction_id other than 0 and 1
\* archives with the route r1 and one or two trips of it, whose
\* direction_id is 0, 1 or 2
DirectionIDs == {0, 1, 2}

AnyDirectionTripsFiles ==
    {<<[trip_id |-> "t1", route_id |-> "r1", direction_id |-> d, trip_headsign |-> Plain]>> : d \in DirectionIDs}
        \cup {<<[trip_id |-> "t1", route_id |-> "r1", direction_id |-> d1, trip_headsign |-> Plain],
                [trip_id |-> "t2", route_id |-> "r1", direction_id |-> d2, trip_headsign |-> WithToken]>> : d1, d2 \in DirectionIDs}

AnyDirectionArchives ==
    {<<File("routes.txt", <<[route_id |-> "r1"]>>, FALSE), File("stops.txt", <<[stop_id |-> "s1"]>>, FALSE),
       File("trips.txt", tr, FALSE), File("stop_times.txt", <<>>, FALSE)>> : tr \in AnyDirectionTripsFiles}

AnyDirectionInit == Constructed /\ published \in AnyDirectionArchives

SpecAnyDirection == AnyDirectionInit /\ [][IndexNext]_vars

PublishedTrips == {published[3].rows[i].trip_id : i \in DOMAIN published[3].rows}

\* C38: a trips row with a direction_id other than 0 and 1 never crashes a
\* static load: Server.parseGTFS does not panic, and a load of either
\* program that has read the archive installs a snapshot with all its trips
\* and two direction destinations per route.
AnyDirectionLoads ==
    /\ ~main.panicked
    /\ (loader.pc = "returned" /\ loader.result = "ok") =>
          /\ DOMAIN store.trips = PublishedTrips
          /\ \A r \in DOMAIN store.routes : Len(store.routes[r].DirectionDestinations) = 2
    /\ server.gtfs.trips # <<>> =>
          /\ DOMAIN server.gtfs.trips = PublishedTrips
          /\ \A r \in DOMAIN server.gtfs.routes : Len(server.gtfs.routes[r].DirectionDestinations) = 2

\* ================================== prediction IDs of trips and stops
\* trip IDs and stop IDs with and without the character "-" in them
HyphenTripIDs == {"a", "a-b"}

HyphenStopIDs == {"c", "b-c"}

\* a trip update of one trip with one stop time update
HyphenEntities ==
    {TripUpdateEntity(TRUE, TRUE, TRUE, tripID, "r1", 0, <<StopTimeUpdate(TRUE, stopID, TRUE, Later, FALSE, 0)>>) :
        tripID \in HyphenTripIDs, stopID \in HyphenStopIDs}

\* feeds of one or two of them
HyphenFeeds == {<<e>> : e \in HyphenEntities} \cup {<<e1, e2>> : e1, e2 \in HyphenEntities}

HyphenNext ==
    \/ UpdateBegin({}, HyphenFeeds)
    \/ TripUpdaterProcess
    \/ TripUpdaterInstall
    \/ TripUpdaterStamp

SpecHyphen == Init /\ [][HyphenNext]_vars

\* the (tripID, stopID) pairs of the stop time updates of a feed
PairsOf(feed) ==
    {<<feed[i].TripId, feed[i].StopTimeUpdate[j].StopId>> : i \in DOMAIN feed, j \in {1}}

\* TripUpdater.Update has installed the predictions of its feed
PredictionsInstalled ==
    /\ updater.kind = "predictions"
    /\ updater.pc = "stamp" \/ (updater.pc = "returned" /\ updater.result = "ok")

\* C35: two stop time updates with different (tripID, stopID) pairs get
\* different prediction IDs, so the map that TripUpdater.Update installs
\* holds a prediction for every pair of the feed, also when the IDs contain
\* the character "-".
EveryPairHasItsPrediction ==
    PredictionsInstalled =>
        \A pair \in PairsOf(updater.feed) :
            \E id \in DOMAIN store.predictions :
                store.predictions[id].TripID = pair[1] /\ store.predictions[id].StopID = pair[2]

\* ======================================= the goroutines of one process
\* Either program runs three goroutines that write the data: main, and the
\* two periodic tasks main starts with "go".  What a goroutine executes is a
\* list of calls, and a call is a list of statements, each of one kind:
\* "fetch" (the network: http.Get, Do, reading resp.Body), "read" (a file or
\* the archive), "parse", "decode", "build" (memory, no lock), "lock",
\* "assign", "update", "unlock", "return".
Goroutines == {"main", "static", "realtime"}

Periodic == {"static", "realtime"}

Mutexes == {"mu", "gtfsMu", "realtimeMu"}

Feeds == {"trips", "vehicles"}

\* a statement that returns in bounded time, ends the call when it fails
\* (onFail = 0) and cannot panic
Statement(kind, lock) == [kind |-> kind, lock |-> lock, bounded |-> TRUE, onFail |-> 0, mayPanic |-> FALSE]

\* a statement on http.DefaultClient without a context: no deadline
Unbounded(kind) == [Statement(kind, "") EXCEPT !.bounded = FALSE]

\* "s.mu.Lock(); defer s.mu.Unlock(); ..." around one thing
Locked(kind, lock) == <<Statement("lock", lock), Statement(kind, lock), Statement("unlock", lock)>>

\* VehicleUpdater.Update holding Store.mu from its first statement on
VehicleUpdateStatementsUnderLock ==
    <<Statement("lock", "mu"), Unbounded("fetch"), Unbounded("fetch"), Statement("decode", ""), Statement("build", ""),
      Statement("build", ""), Statement("assign", "mu"), Statement("unlock", "mu")>>

\* VehicleUpdater.Update: http.Get, io.ReadAll(resp.Body), proto.Unmarshal,
\* processFeed, and store.UpdateVehicles (indexes, then the swap under mu)
VehicleUpdateStatements ==
    <<Unbounded("fetch"), Unbounded("fetch"), Statement("decode", ""), Statement("build", ""), Statement("build", "")>>
    \o Locked("assign", "mu")

\* TripUpdater.Update: the same, then store.UpdatePredictions and
\* store.SetLastRealtimeUpdate
TripUpdateStatements ==
    <<Unbounded("fetch"), Unbounded("fetch"), Statement("decode", ""), Statement("build", ""), Statement("build", "")>>
    \o Locked("assign", "mu") \o Locked("assign", "mu")

\* Loader.Load: os.CreateTemp, http.Get, io.Copy(tmpFile, resp.Body),
\* zip.OpenReader, store.Clear, then for a file readCSV and a store.Add* per
\* row, BuildStopsByRoute, BuildRouteDirections, SetLastStaticUpdate
LoadStatements ==
    <<Statement("read", ""), Unbounded("fetch"), Unbounded("fetch"), Statement("read", "")>>
    \o Locked("update", "mu")
    \o <<Statement("read", ""), Statement("parse", "")>> \o Locked("update", "mu")
    \o Locked("update", "mu") \o Locked("update", "mu") \o Locked("assign", "mu")

\* parseGTFS after zip.OpenReader: the files, buildRouteStopMappings and
\* the destinations loop (which indexes a two-element slice by
\* trip.Direction), then the swap of s.gtfs under gtfsMu
parseGTFSStatements(onFail) ==
    <<[Statement("read", "") EXCEPT !.onFail = onFail], [Statement("parse", "") EXCEPT !.onFail = onFail],
      [Statement("build", "") EXCEPT !.mayPanic = TRUE]>>
    \o Locked("assign", "gtfsMu")

\* loadGTFS: downloadAndParseGTFS (http.Get, os.CreateTemp, io.Copy,
\* parseGTFS, saveLocalCopy whose error is only logged) and, when that
\* fails, parseGTFS on the local copy
loadGTFSStatements ==
    LET download(fallback) ==
            <<[Unbounded("fetch") EXCEPT !.onFail = fallback], [Statement("read", "") EXCEPT !.onFail = fallback],
              [Unbounded("fetch") EXCEPT !.onFail = fallback]>>
            \o parseGTFSStatements(fallback)
        fallbackAt == Len(download(0)) + 3
        fresh == download(fallbackAt)
                 \o <<[Statement("read", "") EXCEPT !.onFail = Len(download(0)) + 2], Statement("return", "")>>
    IN  fresh \o parseGTFSStatements(0)

\* updateVehiclePositions: the request carries updateRealtimeData's context
\* (30 seconds), then io.ReadAll, proto.Unmarshal, the loop over the
\* entities (gtfsMu is only read-locked there) and the swap under realtimeMu
updateVehiclePositionsStatements ==
    <<Statement("fetch", ""), Statement("fetch", ""), Statement("decode", ""), Statement("build", "")>>
    \o Locked("assign", "realtimeMu")

updateTripUpdatesStatements ==
    <<Statement("fetch", ""), Statement("fetch", ""), Statement("decode", ""), Statement("build", "")>>
    \o Locked("assign", "realtimeMu")

\* the end of updateRealtimeData: s.realtime.lastUpdate = time.Now() under realtimeMu
lastUpdateStatements == Locked("assign", "realtimeMu")

Program(call) ==
    CASE call = "Loader.Load" -> LoadStatements
      [] call = "TripUpdater.Update" -> TripUpdateStatements
      [] call = "VehicleUpdater.Update" -> VehicleUpdateStatements
      [] call = "loadGTFS" -> loadGTFSStatements
      [] call = "updateVehiclePositions" -> updateVehiclePositionsStatements
      [] call = "updateTripUpdates" -> updateTripUpdatesStatements
      [] call = "lastUpdate" -> lastUpdateStatements
      [] OTHER -> <<>>

\* the realtime feed a call polls, "" for the other calls
FeedOf(call) ==
    CASE call \in {"TripUpdater.Update", "updateTripUpdates"} -> "trips"
      [] call \in {"VehicleUpdater.Update", "updateVehiclePositions"} -> "vehicles"
      [] OTHER -> ""

GoCalls == {"go static", "go realtime"}

\* main that starts the periodic tasks before its own first polls
MainCallsTasksFirst(binary) ==
    IF binary = "cmd"
    THEN <<"Loader.Load", "go static", "go realtime", "TripUpdater.Update", "VehicleUpdater.Update">>
    ELSE <<"loadGTFS", "go static", "go realtime", "updateVehiclePositions", "updateTripUpdates", "lastUpdate">>

\* main of cmd/cota-bus and main of the single-file server, up to the
\* start of the HTTP server
MainCalls(binary) ==
    IF binary = "cmd"
    THEN <<"Loader.Load", "TripUpdater.Update", "VehicleUpdater.Update", "go static", "go realtime">>
    ELSE <<"loadGTFS", "updateVehiclePositions", "updateTripUpdates", "lastUpdate", "go static", "go realtime">>

\* what a periodic task does on "case <-ticker.C" / "for range ticker.C"
TickCalls(binary, g) ==
    CASE binary = "cmd" /\ g = "static" -> <<"Loader.Load">>
      [] binary = "cmd" /\ g = "realtime" -> <<"TripUpdater.Update", "VehicleUpdater.Update">>
      [] binary = "single" /\ g = "static" -> <<"loadGTFS">>
      [] binary = "single" /\ g = "realtime" -> <<"updateVehiclePositions", "updateTripUpdates", "lastUpdate">>

\* "if err := gtfsLoader.Load(); err != nil { log.Fatalf(...) }" in main
Fatal(binary, g, call) == binary = "cmd" /\ g = "main" /\ call = "Loader.Load"

Absent == [state |-> "absent", calls |-> <<>>, pc |-> 1, result |-> "none", returned |-> ""]

\* a goroutine whose loop ends at the first error a call returns
AfterReturnLeavingOnError(g, call, result, rest) ==
    IF result = "error"
    THEN [state |-> "returned", calls |-> <<>>, pc |-> 1, result |-> result, returned |-> call]
    ELSE [state |-> IF rest # <<>> THEN "running" ELSE IF g = "main" THEN "serving" ELSE "waiting",
          calls |-> rest, pc |-> 1, result |-> result, returned |-> call]

\* where a goroutine is after a call has returned: the error is logged, and
\* the goroutine goes on with its next call or back to its select
AfterReturn(g, call, result, rest) ==
    [state |-> IF rest # <<>> THEN "running" ELSE IF g = "main" THEN "serving" ELSE "waiting",
     calls |-> rest, pc |-> 1, result |-> result, returned |-> call]

\* a goroutine that begins a poll joins the polls of that feed in progress
Enter(t, g) ==
    LET c == t.at[g]
    IN  IF c.state = "running" /\ c.calls # <<>> /\ FeedOf(Head(c.calls)) # ""
        THEN [t EXCEPT !.started[FeedOf(Head(c.calls))] = Append(@, g)]
        ELSE t

ProcessStart(binary) ==
    Enter([binary |-> binary,
           at |-> [g \in Goroutines |-> IF g = "main" THEN [Absent EXCEPT !.state = "running", !.calls = MainCalls(binary)] ELSE Absent],
           held |-> [l \in Mutexes |-> ""],
           answers |-> TRUE,
           exited |-> FALSE,
           started |-> [f \in Feeds |-> <<>>]], "main")

\* the call of g returns: its deferred unlocks run, and log.Fatalf ends the process
Leave(t, g, result) ==
    LET call == Head(t.at[g].calls)
        left == [t EXCEPT !.started = [f \in Feeds |-> IF f = FeedOf(call) THEN SelectSeq(t.started[f], LAMBDA h : h # g) ELSE t.started[f]],
                          !.held = [l \in Mutexes |-> IF t.held[l] = g THEN "" ELSE t.held[l]]]
    IN  IF result = "error" /\ Fatal(t.binary, g, call)
        THEN [left EXCEPT !.exited = TRUE, !.at[g].result = result, !.at[g].returned = call]
        ELSE Enter([left EXCEPT !.at[g] = AfterReturn(g, call, result, Tail(t.at[g].calls))], g)

Running(g) == tasks.binary # "none" /\ ~tasks.exited /\ tasks.at[g].state = "running"

\* g is inside a call, at one of its statements
InCall(g) ==
    /\ tasks.binary # "none" /\ tasks.at[g].state = "running"
    /\ Head(tasks.at[g].calls) \notin GoCalls
    /\ tasks.at[g].pc <= Len(Program(Head(tasks.at[g].calls)))

AtStatement(g) == InCall(g) /\ ~tasks.exited

Stmt(g) == Program(Head(tasks.at[g].calls))[tasks.at[g].pc]

Advance(t, g) == [t EXCEPT !.at[g].pc = @ + 1]

\* "if err != nil { return ... }", or the fallback of loadGTFS
Failed(t, g) ==
    LET onFail == Program(Head(t.at[g].calls))[t.at[g].pc].onFail
    IN  IF onFail > 0 THEN [t EXCEPT !.at[g].pc = onFail] ELSE Leave(t, g, "error")

outsideTasks == <<store, callVars, lockVars, loader, clock, serverVars, updaterVars>>

\* a statement that waits for the remote server: it yields the answer, or
\* an error; with no deadline and no answer it does neither
Fetch(g) ==
    /\ AtStatement(g) /\ Stmt(g).kind = "fetch"
    /\ \/ tasks.answers /\ tasks' = Advance(tasks, g)
       \/ (tasks.answers \/ Stmt(g).bounded) /\ tasks' = Failed(tasks, g)
    /\ UNCHANGED outsideTasks

ReadParseDecode(g) ==
    /\ AtStatement(g) /\ Stmt(g).kind \in {"read", "parse", "decode"}
    /\ tasks' \in {Advance(tasks, g), Failed(tasks, g)}
    /\ UNCHANGED outsideTasks

Build(g) ==
    /\ AtStatement(g) /\ Stmt(g).kind = "build"
    /\ tasks' = Advance(tasks, g)
    /\ UNCHANGED outsideTasks

\* index out of range in a goroutine: the runtime ends the process
Panic(g) ==
    /\ AtStatement(g) /\ Stmt(g).mayPanic
    /\ tasks' = [tasks EXCEPT !.exited = TRUE, !.at[g].result = "panic"]
    /\ UNCHANGED outsideTasks

Lock(g) ==
    /\ AtStatement(g) /\ Stmt(g).kind = "lock"
    /\ tasks.held[Stmt(g).lock] = ""
    /\ tasks' = [Advance(tasks, g) EXCEPT !.held[Stmt(g).lock] = g]
    /\ UNCHANGED outsideTasks

AssignOrUpdate(g) ==
    /\ AtStatement(g) /\ Stmt(g).kind \in {"assign", "update"}
    /\ tasks' = Advance(tasks, g)
    /\ UNCHANGED outsideTasks

Unlock(g) ==
    /\ AtStatement(g) /\ Stmt(g).kind = "unlock"
    /\ tasks' = [Advance(tasks, g) EXCEPT !.held[Stmt(g).lock] = ""]
    /\ UNCHANGED outsideTasks

\* "return nil"
Return(g) ==
    /\ Running(g) /\ Head(tasks.at[g].calls) \notin GoCalls
    /\ \/ tasks.at[g].pc > Len(Program(Head(tasks.at[g].calls)))
       \/ AtStatement(g) /\ Stmt(g).kind = "return"
    /\ tasks' = Leave(tasks, g, "ok")
    /\ UNCHANGED outsideTasks

\* "go func() { ... }()", "go server.gtfsUpdater()": the new goroutine waits for its ticker
Go(g) ==
    /\ Running(g) /\ Head(tasks.at[g].calls) \in GoCalls
    /\ LET target == IF Head(tasks.at[g].calls) = "go static" THEN "static" ELSE "realtime"
           rest == Tail(tasks.at[g].calls)
       IN  tasks' = Enter([tasks EXCEPT !.at[target] = [Absent EXCEPT !.state = "waiting"],
                                        !.at[g] = [@ EXCEPT !.calls = rest,
                                                            !.state = IF rest # <<>> THEN "running" ELSE "serving"]], g)
    /\ UNCHANGED outsideTasks

\* "case <-ticker.C:"
Tick(g) ==
    /\ tasks.binary # "none" /\ ~tasks.exited /\ g \in Periodic /\ tasks.at[g].state = "waiting"
    /\ tasks' = Enter([tasks EXCEPT !.at[g] = [@ EXCEPT !.state = "running", !.calls = TickCalls(tasks.binary, g), !.pc = 1]], g)
    /\ UNCHANGED outsideTasks

\* from some moment on the remote server accepts connections and never answers
RemoteStopsAnswering ==
    /\ tasks.binary # "none" /\ ~tasks.exited /\ tasks.answers
    /\ tasks' = [tasks EXCEPT !.answers = FALSE]
    /\ UNCHANGED outsideTasks

TasksInit == Objects /\ published = <<>> /\ tasks \in {ProcessStart("cmd"), ProcessStart("single")}

TasksNext ==
    \/ \E g \in Goroutines : Fetch(g)
    \/ \E g \in Goroutines : ReadParseDecode(g)
    \/ \E g \in Goroutines : Build(g)
    \/ \E g \in Goroutines : Panic(g)
    \/ \E g \in Goroutines : Lock(g)
    \/ \E g \in Goroutines : AssignOrUpdate(g)
    \/ \E g \in Goroutines : Unlock(g)
    \/ \E g \in Goroutines : Return(g)
    \/ \E g \in Goroutines : Go(g)
    \/ \E g \in Goroutines : Tick(g)
    \/ RemoteStopsAnswering

SpecTasks == TasksInit /\ [][TasksNext]_vars

Holds(g) == \E l \in Mutexes : tasks.held[l] = g

\* C22: a goroutine that holds Store.mu, gtfsMu or realtimeMu exclusively is
\* at an assignment, at a single in-memory update or at the unlock: never at
\* a network fetch, an archive read, a table parse or a protobuf decode.
NoIOUnderExclusiveLock ==
    tasks.binary # "none" =>
        \A g \in Goroutines : Holds(g) => InCall(g) /\ Stmt(g).kind \in {"assign", "update", "unlock"}

\* a poll is about to assign under Store.mu while the static task is
\* inside a statement that reads, parses or fetches
AssignsWhileOtherTaskDoesIO ==
    /\ tasks.binary # "none"
    /\ \E g, h \in Goroutines :
          /\ Holds(g) /\ AtStatement(g) /\ Stmt(g).kind = "assign"
          /\ AtStatement(h) /\ Stmt(h).kind \in {"fetch", "read", "parse", "decode"}

\* the feed polled by the call g is in
PollOf(g) == IF InCall(g) THEN FeedOf(Head(tasks.at[g].calls)) ELSE ""

\* C25: at most one poll of a realtime feed is in progress at any time; a
\* poll that assigns its maps is the poll of that feed that started first;
\* and once the periodic task exists main has no poll left to make.
OnePollPerFeedAtATime ==
    tasks.binary # "none" =>
        /\ \A f \in Feeds : Len(tasks.started[f]) <= 1
        /\ \A g \in Goroutines :
              (PollOf(g) # "" /\ Stmt(g).kind = "assign") => Head(tasks.started[PollOf(g)]) = g
        /\ tasks.at["realtime"].state # "absent" =>
              \A i \in DOMAIN tasks.at["main"].calls : FeedOf(tasks.at["main"].calls[i]) = ""

\* the periodic task is assigning the maps of a trip-update poll it made
\* after the initial poll of main had returned
PeriodicPollInstalls ==
    /\ tasks.binary # "none"
    /\ tasks.at["main"].returned # ""
    /\ PollOf("realtime") = "trips" /\ Stmt("realtime").kind = "assign"
    /\ tasks.started["trips"] = <<"realtime">>

\* ------------------------------------------------ the same, scheduled fairly
\* The Go scheduler runs every goroutine that can run, a goroutine waiting
\* for a sync.Mutex gets it after finitely many unlocks (starvation mode),
\* and a ticker keeps ticking.  Nothing makes the remote server answer, and
\* nothing makes a statement panic.
Step(g) ==
    \/ Fetch(g)
    \/ ReadParseDecode(g)
    \/ Build(g)
    \/ AssignOrUpdate(g)
    \/ Unlock(g)
    \/ Return(g)
    \/ Go(g)

SpecTasksFair ==
    /\ SpecTasks
    /\ \A g \in Goroutines : WF_vars(Step(g)) /\ SF_vars(Lock(g))
    /\ \A g \in Periodic : WF_vars(Tick(g))

\* the step on which the call g is in returns an error
FailedCall(g) ==
    /\ InCall(g) /\ ~tasks.exited
    /\ tasks'.at[g] # tasks.at[g] /\ tasks'.at[g].result = "error"
    /\ tasks'.at[g].calls # tasks.at[g].calls \/ tasks'.at[g].state # "running" \/ tasks'.exited

\* g is back in its ticker loop after a call that failed
WaitsAfterFailure(g) == tasks.at[g].state = "waiting" /\ tasks.at[g].result = "error"

\* g has begun the first call of a tick
AttemptBegun(g) ==
    /\ tasks.at[g].state = "running" /\ tasks.at[g].pc = 1
    /\ tasks.at[g].calls = TickCalls(tasks.binary, g)

\* C26: when a call of a periodic task returns an error the process goes on
\* and the task goes on with the next call of the same tick (the vehicle poll
\* after a failed trip-update poll) or back to its ticker loop, from where
\* the next tick begins a new attempt.
FailedCallKeepsTask ==
    /\ [][\A g \in Periodic :
            FailedCall(g) =>
                /\ ~tasks'.exited
                /\ tasks'.at[g].calls = Tail(tasks.at[g].calls)
                /\ tasks'.at[g].pc = 1
                /\ tasks'.at[g].state = IF Tail(tasks.at[g].calls) # <<>> THEN "running" ELSE "waiting"]_vars
    /\ \A g \in Periodic : WaitsAfterFailure(g) ~> (AttemptBegun(g) \/ tasks.exited)

\* the vehicle poll of a tick has begun although the trip-update poll of
\* that tick failed
VehiclePollAfterFailedTripPoll ==
    /\ tasks.binary = "cmd"
    /\ tasks.at["realtime"].state = "running"
    /\ tasks.at["realtime"].calls = <<"VehicleUpdater.Update">>
    /\ tasks.at["realtime"].returned = "TripUpdater.Update" /\ tasks.at["realtime"].result = "error"

Calls == {"Loader.Load", "TripUpdater.Update", "VehicleUpdater.Update", "loadGTFS", "updateVehiclePositions", "updateTripUpdates"}

InCallOf(g, call) == InCall(g) /\ Head(tasks.at[g].calls) = call

\* C27: every poll or load that has started returns, whether or not the
\* remote server ever answers (or the process has ended).
EveryCallReturns ==
    \A g \in Goroutines : \A call \in Calls :
        InCallOf(g, call) ~> (~InCallOf(g, call) \/ tasks.exited)

\* the polls of the single-file server, whose requests carry a deadline, do return
DeadlinedCallsReturn ==
    \A g \in Goroutines : \A call \in {"updateVehiclePositions", "updateTripUpdates"} :
        InCallOf(g, call) ~> (~InCallOf(g, call) \/ tasks.exited)

\* ============================== main of cmd/cota-bus, start to shutdown
\* main, the two ticker goroutines, the goroutine of the HTTP server, the
\* channels done and quit, and the WaitGroup.  A Load or an Update is one
\* step here that returns nil or an error.

\* main that starts the HTTP server before it loads anything
mainStatementsServerFirst ==
    <<"goServer", "Load", "TripUpdate", "VehicleUpdate", "Notify", "goStatic", "goRealtime",
      "quit", "close", "Shutdown", "ShutdownWait", "Wait">>

\* the statements of main in their order: gtfsLoader.Load, the two initial
\* Updates, signal.Notify, the three "go func()", "<-quit", close(done),
\* server.Shutdown (close the listener, then wait for the connections or
\* for the 30 seconds of ctx), wg.Wait
mainStatements ==
    <<"Load", "TripUpdate", "VehicleUpdate", "Notify", "goStatic", "goRealtime", "goServer",
      "quit", "close", "Shutdown", "ShutdownWait", "Wait">>

\* a ticker goroutine whose select has no "case <-done"
selectCasesTickerOnly(g) == {"ticker"}

\* "select { case <-ticker.C: ... case <-done: return }"
selectCases(g) == {"ticker", "done"}

\* log.Fatalf: the message, then os.Exit(1)
Fatalf(t, message) == [t EXCEPT !.exited = TRUE, !.fatal = message]

CmdStart ==
    [binary |-> "cmd", main |-> 1,
     at |-> [g \in Periodic |-> [state |-> "absent", calls |-> <<>>]],
     server |-> "absent", tick |-> [g \in Periodic |-> FALSE],
     done |-> FALSE, notified |-> FALSE, quit |-> FALSE, shutdown |-> FALSE,
     active |-> FALSE, accepted |-> FALSE, wg |-> 0,
     failed |-> {}, logged |-> {}, exited |-> FALSE, fatal |-> ""]

MainAt(statement) ==
    /\ ~tasks.exited /\ tasks.main <= Len(mainStatements)
    /\ mainStatements[tasks.main] = statement

MainReturned == tasks.main > Len(mainStatements)

ProcessRuns == ~tasks.exited /\ ~MainReturned

MainNext(t) == [t EXCEPT !.main = @ + 1]

\* "if err := gtfsLoader.Load(); err != nil { log.Fatalf(...) }"
MainLoad ==
    /\ MainAt("Load")
    /\ \/ tasks' = MainNext(tasks)
       \/ tasks' = Fatalf([tasks EXCEPT !.failed = @ \cup {"Load"}], "Failed to load initial GTFS data")
    /\ UNCHANGED outsideTasks

\* "if err := tripUpdater.Update(); err != nil { log.Printf(...) }" and the
\* same for vehicleUpdater
MainUpdate ==
    /\ \E call \in {"TripUpdate", "VehicleUpdate"} :
          /\ MainAt(call)
          /\ \/ tasks' = MainNext(tasks)
             \/ tasks' = MainNext([tasks EXCEPT !.failed = @ \cup {call}, !.logged = @ \cup {call}])
    /\ UNCHANGED outsideTasks

\* signal.Notify(quit, syscall.SIGINT, syscall.SIGTERM)
MainNotify ==
    /\ MainAt("Notify")
    /\ tasks' = MainNext([tasks EXCEPT !.notified = TRUE])
    /\ UNCHANGED outsideTasks

\* "wg.Add(1); go func() { ... }()"
MainGo ==
    /\ \/ \E g \in Periodic :
             /\ MainAt(IF g = "static" THEN "goStatic" ELSE "goRealtime")
             /\ tasks' = MainNext([tasks EXCEPT !.wg = @ + 1, !.at[g].state = "select"])
       \/ /\ MainAt("goServer")
          /\ tasks' = MainNext([tasks EXCEPT !.wg = @ + 1, !.server = "starting"])
    /\ UNCHANGED outsideTasks

\* SIGINT or SIGTERM arrives: in the channel quit (buffer of one) once
\* Notify has run, and with the default action, which ends the process, before
Signal ==
    /\ ProcessRuns /\ ~tasks.quit
    /\ tasks' = IF tasks.notified THEN [tasks EXCEPT !.quit = TRUE] ELSE Fatalf(tasks, "signal")
    /\ UNCHANGED outsideTasks

\* "<-quit"
MainQuit ==
    /\ MainAt("quit") /\ tasks.quit
    /\ tasks' = MainNext(tasks)
    /\ UNCHANGED outsideTasks

\* close(done)
MainCloseDone ==
    /\ MainAt("close")
    /\ tasks' = MainNext([tasks EXCEPT !.done = TRUE])
    /\ UNCHANGED outsideTasks

\* server.Shutdown(ctx): the listener is closed, then Shutdown returns nil
\* when no connection is busy, or ctx.Err() after 30 seconds with one that is:
\* "log.Fatalf("Server forced to shutdown: %v", err)"
MainShutdown ==
    /\ \/ /\ MainAt("Shutdown")
          /\ tasks' = MainNext([tasks EXCEPT !.shutdown = TRUE])
       \/ /\ MainAt("ShutdownWait")
          /\ tasks' = IF tasks.active THEN Fatalf(tasks, "Server forced to shutdown") ELSE MainNext(tasks)
    /\ UNCHANGED outsideTasks

\* wg.Wait(), and main returns
MainWait ==
    /\ MainAt("Wait") /\ tasks.wg = 0
    /\ tasks' = MainNext(tasks)
    /\ UNCHANGED outsideTasks

\* a time.Ticker puts a tick into its channel (buffer of one)
TickerFires(g) ==
    /\ ProcessRuns /\ tasks.at[g].state \in {"select", "call"} /\ ~tasks.tick[g]
    /\ tasks' = [tasks EXCEPT !.tick[g] = TRUE]
    /\ UNCHANGED outsideTasks

\* "case <-ticker.C:"
SelectTicker(g) ==
    /\ ProcessRuns /\ tasks.at[g].state = "select"
    /\ "ticker" \in selectCases(g) /\ tasks.tick[g]
    /\ tasks' = [tasks EXCEPT !.tick[g] = FALSE, !.at[g] = [state |-> "call", calls |-> TickCalls("cmd", g)]]
    /\ UNCHANGED outsideTasks

\* "case <-done: return", with the deferred wg.Done()
SelectDone(g) ==
    /\ ProcessRuns /\ tasks.at[g].state = "select"
    /\ "done" \in selectCases(g) /\ tasks.done
    /\ tasks' = [tasks EXCEPT !.at[g].state = "returned", !.wg = @ - 1]
    /\ UNCHANGED outsideTasks

\* a Load or an Update of a ticker goroutine returns; an error is logged
PeriodicCallReturns(g) ==
    /\ ProcessRuns /\ tasks.at[g].state = "call"
    /\ LET rest == Tail(tasks.at[g].calls)
           after == [state |-> IF rest = <<>> THEN "select" ELSE "call", calls |-> rest]
       IN  \/ tasks' = [tasks EXCEPT !.at[g] = after]
           \/ tasks' = [tasks EXCEPT !.at[g] = after, !.logged = @ \cup {Head(tasks.at[g].calls)}]
    /\ UNCHANGED outsideTasks

\* server.ListenAndServe(): it listens, or returns http.ErrServerClosed
\* after Shutdown, or another error, which is fatal
ListenAndServe ==
    /\ ProcessRuns
    /\ \/ /\ tasks.server = "starting" /\ ~tasks.shutdown
          /\ tasks' = [tasks EXCEPT !.server = "listening"]
       \/ /\ tasks.server \in {"starting", "listening"} /\ tasks.shutdown
          /\ tasks' = [tasks EXCEPT !.server = "returned", !.wg = @ - 1]
       \/ /\ tasks.server \in {"starting", "listening"} /\ ~tasks.shutdown
          /\ tasks' = Fatalf(tasks, "Server error")
    /\ UNCHANGED outsideTasks

\* the server accepts a connection and reads a request from it
Accept ==
    /\ ProcessRuns /\ tasks.server = "listening" /\ ~tasks.shutdown /\ ~tasks.active
    /\ tasks' = [tasks EXCEPT !.active = TRUE, !.accepted = TRUE]
    /\ UNCHANGED outsideTasks

\* the response is written and the connection is idle or closed
Respond ==
    /\ ProcessRuns /\ tasks.active
    /\ tasks' = [tasks EXCEPT !.active = FALSE]
    /\ UNCHANGED outsideTasks

MainInit == Objects /\ published = <<>> /\ tasks = CmdStart

MainProgramNext ==
    \/ MainLoad
    \/ MainUpdate
    \/ MainNotify
    \/ MainGo
    \/ Signal
    \/ MainQuit
    \/ MainCloseDone
    \/ MainShutdown
    \/ MainWait
    \/ \E g \in Periodic : TickerFires(g)
    \/ \E g \in Periodic : SelectTicker(g)
    \/ \E g \in Periodic : SelectDone(g)
    \/ \E g \in Periodic : PeriodicCallReturns(g)
    \/ ListenAndServe
    \/ Accept
    \/ Respond

SpecMain == MainInit /\ [][MainProgramNext]_vars

InitialCallsReturned == tasks.main > 3

\* the step of main on which the initial call returns an error
InitialCallFails(call) == MainAt(call) /\ call \in tasks'.failed \ tasks.failed

\* C31: the HTTP server of cmd/cota-bus exists and accepts requests only
\* after the initial Load has succeeded and the two initial polls have
\* returned; a failed initial Load is reported with log.Fatalf and ends the
\* process, which never serves; a failed initial poll is logged and main
\* goes on to its next statement.
ServesOnlyAfterInitialLoad ==
    /\ [](tasks.server # "absent" \/ tasks.accepted => InitialCallsReturned /\ "Load" \notin tasks.failed)
    /\ [][InitialCallFails("Load") =>
            /\ tasks'.exited /\ tasks'.fatal = "Failed to load initial GTFS data"
            /\ tasks'.server = "absent" /\ ~tasks'.accepted]_vars
    /\ []("Load" \in tasks.failed => tasks.exited /\ tasks.server = "absent" /\ ~tasks.accepted)
    /\ [][\A call \in {"TripUpdate", "VehicleUpdate"} :
            InitialCallFails(call) => ~tasks'.exited /\ tasks'.main = tasks.main + 1 /\ call \in tasks'.logged]_vars

\* the server has accepted a request although both initial polls failed
ServesAfterFailedInitialPolls ==
    /\ tasks.binary = "cmd" /\ tasks.accepted /\ tasks.server = "listening"
    /\ {"TripUpdate", "VehicleUpdate"} \subseteq tasks.failed

\* ---------------------------------------------- the same, scheduled fairly
\* Every goroutine that can run does; a call in progress returns; a select
\* with several ready cases picks one of them at random, so a case that is
\* ready again and again is taken.  Nothing makes a client finish its
\* request, a ticker fire or a signal arrive.
SpecMainFair ==
    /\ SpecMain
    /\ WF_vars(MainLoad \/ MainUpdate \/ MainNotify \/ MainGo \/ MainQuit \/ MainCloseDone \/ MainShutdown \/ MainWait)
    /\ WF_vars(ListenAndServe)
    /\ \A g \in Periodic : WF_vars(SelectTicker(g) \/ SelectDone(g)) /\ SF_vars(SelectDone(g)) /\ WF_vars(PeriodicCallReturns(g))

GoroutinesReturned ==
    /\ \A g \in Periodic : tasks.at[g].state = "returned"
    /\ tasks.server = "returned" /\ tasks.wg = 0

\* C32 as stated: once a signal is in quit, main returns after wg.Wait with
\* the two ticker goroutines and the server goroutine returned.
SignalEndsInReturn == tasks.quit ~> (MainReturned /\ GoroutinesReturned)

\* C32: once a signal is in quit, done is closed and either main returns
\* after wg.Wait, with the two ticker goroutines and the server goroutine
\* returned, or the process ends in log.Fatalf because Shutdown ran into its
\* 30 seconds or ListenAndServe failed; main never returns before the
\* three goroutines have.
SignalEndsInReturnOrFatalf ==
    /\ tasks.quit ~> ((MainReturned /\ GoroutinesReturned) \/ tasks.fatal \in {"Server forced to shutdown", "Server error"})
    /\ [](MainReturned => GoroutinesReturned /\ tasks.done /\ tasks.shutdown)
    /\ [](tasks.fatal = "Server forced to shutdown" => tasks.done /\ tasks.quit)

\* main has returned after a signal, with its goroutines returned, and the
\* server had accepted a request before
ReturnedAfterSignal ==
    /\ tasks.binary = "cmd" /\ "main" \notin DOMAIN tasks.at
    /\ MainReturned /\ GoroutinesReturned /\ tasks.quit /\ tasks.accepted

\* ================= the single-file server: gtfsMu and realtimeMu together
\* Two request handlers (one for the realtime resources, one for the static
\* ones), the realtime poll and the static load use the two sync.RWMutex of
\* the Server.  A Lock that waits keeps new readers out (the
\* lock prefers writers), so a reader can wait for a writer that waits for
\* other readers.
Handlers == {"handler1", "handler2"}

LockTasks == Handlers \cup Periodic

RWMutexes == {"gtfsMu", "realtimeMu"}

\* "s.gtfsMu.RLock(); ...; s.gtfsMu.RUnlock()" around one thing
RLocked(kind, lock) == <<Statement("rlock", lock), Statement(kind, lock), Statement("runlock", lock)>>

\* handlePredictions: realtimeMu is read-locked until the function returns
\* (defer); with filter[route] the trips are walked under gtfsMu as well;
\* the response is encoded to the client before the deferred unlock
handlePredictionsStatements(routeFilter) ==
    <<Statement("rlock", "realtimeMu")>>
    \o (IF routeFilter THEN RLocked("build", "gtfsMu") ELSE <<Statement("build", "")>>)
    \o <<Statement("write", ""), Statement("runlock", "realtimeMu")>>

\* handleStops, handleShapes, handleShape: gtfsMu read-locked until the return
handleStopsStatements == <<Statement("rlock", "gtfsMu"), Statement("build", ""), Statement("write", ""), Statement("runlock", "gtfsMu")>>

\* handleVehicles: the vehicles are copied under realtimeMu, then encoded
handleVehiclesStatements == RLocked("build", "realtimeMu") \o <<Statement("write", "")>>

\* a poll that keeps gtfsMu read-locked until it has installed its map
updateTripUpdatesLocksHoldingGtfsMu ==
    <<Statement("rlock", "gtfsMu"), Statement("build", "")>> \o Locked("assign", "realtimeMu") \o <<Statement("runlock", "gtfsMu")>>

\* updateTripUpdates: per entity the trip is looked up under gtfsMu, which
\* is released again; the map is installed under realtimeMu afterwards
updateTripUpdatesLocks == RLocked("build", "gtfsMu") \o Locked("assign", "realtimeMu")

\* updateVehiclePositions: the direction and the stop of an entity are
\* looked up under gtfsMu in two sections; then the swap under realtimeMu
updateVehiclePositionsLocks == RLocked("build", "gtfsMu") \o RLocked("build", "gtfsMu") \o Locked("assign", "realtimeMu")

\* updateRealtimeData: the two polls and the stamp of lastUpdate
updateRealtimeDataLocks == updateVehiclePositionsLocks \o updateTripUpdatesLocks \o lastUpdateStatements

\* loadGTFS: everything is parsed into newGTFS, then the swap under gtfsMu
loadGTFSLocks == <<Statement("parse", "")>> \o Locked("assign", "gtfsMu")

LockCalls(task) ==
    CASE task = "handler1" -> {handlePredictionsStatements(TRUE), handlePredictionsStatements(FALSE), handleVehiclesStatements}
      [] task = "handler2" -> {handleStopsStatements}
      [] task = "realtime" -> {updateRealtimeDataLocks}
      [] task = "static" -> {loadGTFSLocks}

LocksStart ==
    [binary |-> "single",
     at |-> [task \in LockTasks |-> [program |-> <<>>, pc |-> 1]],
     readers |-> [l \in RWMutexes |-> {}],
     writer |-> [l \in RWMutexes |-> ""],
     pending |-> [l \in RWMutexes |-> {}]]

Idle(task) == tasks.at[task].program = <<>>

Now(task) == tasks.at[task].program[tasks.at[task].pc]

At(task, kinds) == ~Idle(task) /\ tasks.at[task].pc <= Len(tasks.at[task].program) /\ Now(task).kind \in kinds

Forward(t, task) == [t EXCEPT !.at[task].pc = @ + 1]

\* a request arrives, a ticker fires
BeginCall(task) ==
    /\ Idle(task)
    /\ \E program \in LockCalls(task) : tasks' = [tasks EXCEPT !.at[task] = [program |-> program, pc |-> 1]]
    /\ UNCHANGED outsideTasks

\* RLock returns when no writer holds the lock and none waits for it
RLockReturns(task) ==
    /\ At(task, {"rlock"})
    /\ tasks.writer[Now(task).lock] = "" /\ tasks.pending[Now(task).lock] = {}
    /\ tasks' = [Forward(tasks, task) EXCEPT !.readers[Now(task).lock] = @ \cup {task}]
    /\ UNCHANGED outsideTasks

\* Lock announces the writer, which keeps new readers out ...
LockWaits(task) ==
    /\ At(task, {"lock"}) /\ task \notin tasks.pending[Now(task).lock]
    /\ tasks' = [tasks EXCEPT !.pending[Now(task).lock] = @ \cup {task}]
    /\ UNCHANGED outsideTasks

\* ... and returns when the readers have left and no writer holds the lock
LockReturns(task) ==
    /\ At(task, {"lock"}) /\ task \in tasks.pending[Now(task).lock]
    /\ tasks.writer[Now(task).lock] = "" /\ tasks.readers[Now(task).lock] = {}
    /\ tasks' = [Forward(tasks, task) EXCEPT !.writer[Now(task).lock] = task, !.pending[Now(task).lock] = @ \ {task}]
    /\ UNCHANGED outsideTasks

\* a statement that takes no lock: a loop over maps, an assignment, the
\* encoding of the response
Statements(task) ==
    /\ At(task, {"build", "assign", "parse", "write"})
    /\ tasks' = Forward(tasks, task)
    /\ UNCHANGED outsideTasks

RUnlock(task) ==
    /\ At(task, {"runlock"})
    /\ tasks' = [Forward(tasks, task) EXCEPT !.readers[Now(task).lock] = @ \ {task}]
    /\ UNCHANGED outsideTasks

UnlockWriter(task) ==
    /\ At(task, {"unlock"})
    /\ tasks' = [Forward(tasks, task) EXCEPT !.writer[Now(task).lock] = ""]
    /\ UNCHANGED outsideTasks

EndCall(task) ==
    /\ ~Idle(task) /\ tasks.at[task].pc > Len(tasks.at[task].program)
    /\ tasks' = [tasks EXCEPT !.at[task] = [program |-> <<>>, pc |-> 1]]
    /\ UNCHANGED outsideTasks

LocksInit == Objects /\ published = <<>> /\ tasks = LocksStart

LocksNext ==
    \/ \E task \in LockTasks : BeginCall(task)
    \/ \E task \in LockTasks : RLockReturns(task)
    \/ \E task \in LockTasks : LockWaits(task)
    \/ \E task \in LockTasks : LockReturns(task)
    \/ \E task \in LockTasks : Statements(task)
    \/ \E task \in LockTasks : RUnlock(task)
    \/ \E task \in LockTasks : UnlockWriter(task)
    \/ \E task \in LockTasks : EndCall(task)

SpecLocks == LocksInit /\ [][LocksNext]_vars

\* Every goroutine that can run does, and the response of a handler gets
\* written; a goroutine that waits in RLock or Lock gets the lock when it is
\* free again and again (sync.RWMutex wakes its waiters).  Nothing makes a
\* request arrive.
SpecLocksFair ==
    /\ SpecLocks
    /\ \A task \in LockTasks :
          /\ WF_vars(LockWaits(task) \/ Statements(task) \/ RUnlock(task) \/ UnlockWriter(task) \/ EndCall(task))
          /\ SF_vars(RLockReturns(task) \/ LockReturns(task))

HoldsLock(task, l) == task \in tasks.readers[l] \/ tasks.writer[l] = task

WaitsFor(task, l) == At(task, {"rlock", "lock"}) /\ Now(task).lock = l

\* a task in a call can take its next step
CanRun(task) ==
    \/ At(task, {"build", "assign", "parse", "write", "runlock", "unlock"})
    \/ ~Idle(task) /\ tasks.at[task].pc > Len(tasks.at[task].program)
    \/ At(task, {"rlock"}) /\ tasks.writer[Now(task).lock] = "" /\ tasks.pending[Now(task).lock] = {}
    \/ At(task, {"lock"}) /\ task \notin tasks.pending[Now(task).lock]
    \/ At(task, {"lock"}) /\ tasks.writer[Now(task).lock] = "" /\ tasks.readers[Now(task).lock] = {}

====
